---------------------------- MODULE Spec2Model ----------------------------
(***************************************************************************)
(* A model of the hybrid code-search core:                                 *)
(*   - SparseEmbedding (BM25 sparse encoder): tokenizer, buildVocabulary,  *)
(*     embed / embedQuery, exportState / importState, clear, updateConfig. *)
(*   - QdrantVectorDatabase: hybridSearch / search (channel selection and  *)
(*     rank fusion), query, parseFilterExpression, insert / delete with    *)
(*     the string id -> point id mapping, createCollection /               *)
(*     createHybridCollection / hasCollection.                             *)
(*   - FireworksReranker: rerank.                                          *)
(* Texts are sequences of one-character strings; tokens are strings.       *)
(* Real numbers are kept exactly: rationals as <<numerator, denominator>>  *)
(* in lowest terms, logarithms by their argument.                          *)
(***************************************************************************)
EXTENDS Integers, Sequences, FiniteSets, TLC

VARIABLES
    enc,        \* the SparseEmbedding object: its private fields
    lastOp,     \* the encoder call that completed last, with its argument and result
    origin,     \* which call established the encoder's present tables
    trip,       \* progress of an exportState; clear; importState sequence
    fallback,   \* whether embed's fallback build with maxDfRatio < 1 made the tables
    db,         \* the Qdrant backend: collections and their points
    hybridCollections, \* QdrantVectorDatabase.hybridCollections (the mode cache)
    observed,   \* the collections whose mode a getCollection answer has shown
    now,        \* Date.now(), in milliseconds
    hs,         \* the hybridSearch / search call in progress or just returned
    st,         \* the insert / delete call in progress or just returned
    rr,         \* the rerank call in progress or just returned
    tk,         \* the tokenize call in progress or just returned
    cc          \* the createCollection / createHybridCollection calls, by caller

vars == <<enc, lastOp, origin, trip, fallback, db, hybridCollections, observed, now, hs, st, rr, tk, cc>>

\* callers that may have a create call in progress at the same time
MaxCalls == 2

Callers == 1..MaxCalls

\* no caller has called
CcIdle == [k \in Callers |-> [pc |-> "idle"]]

encVars == <<enc, lastOp, origin, trip, fallback>>
dbVars == <<db, hybridCollections, observed, now, hs, st>>

(***************************************************************************)
(* Bounds of the model.                                                    *)
(***************************************************************************)
MaxDocs == 2     \* documents in a corpus
MaxReq == 2      \* requests in one hybridSearch call
MaxRes == 2      \* points in one backend search answer
MaxNow == 1      \* milliseconds the clock advances
MaxIds == 2      \* ids in one insert or delete call
MaxMany == 101   \* documents in one large insert
MaxRerank == 2   \* documents in one rerank call
MaxValues == 2   \* values in the list of an in expression
MaxPieces == 4   \* words in one text that is tokenized

(***************************************************************************)
(* Generic helpers.                                                        *)
(***************************************************************************)
RECURSIVE GCD(_, _)
GCD(a, b) == IF b = 0 THEN a ELSE GCD(b, a % b)

Abs(x) == IF x < 0 THEN -x ELSE x

\* n / d as a number: the rational in lowest terms, d > 0.
Rat(n, d) ==
    LET g == GCD(Abs(n), d)
    IN IF n = 0 THEN <<0, 1>> ELSE <<n \div g, d \div g>>

RatIsZero(r) == r[1] = 0

RatAdd(r, q) == Rat(r[1] * q[2] + q[1] * r[2], r[2] * q[2])

RatMul(r, q) == Rat(r[1] * q[1], r[2] * q[2])

\* r < q
RatLess(r, q) == r # q /\ r[1] * q[2] < q[1] * r[2]

RECURSIVE SeqsUpTo(_, _)
SeqsUpTo(S, n) ==
    IF n = 0 THEN {<<>>}
    ELSE LET shorter == SeqsUpTo(S, n - 1)
         IN shorter \cup {Append(s, x) : s \in {t \in shorter : Len(t) = n - 1}, x \in S}

Range(s) == {s[i] : i \in DOMAIN s}

\* s.filter(P) for the positions of s kept by the set keep
RECURSIVE SelectByIndex(_, _, _)
SelectByIndex(s, keep, i) ==
    IF i > Len(s) THEN <<>>
    ELSE (IF i \in keep THEN <<s[i]>> ELSE <<>>) \o SelectByIndex(s, keep, i + 1)

(***************************************************************************)
(* A JavaScript Map: insertion-ordered keys and a value per key.           *)
(***************************************************************************)
EmptyMap == [keys |-> <<>>, val |-> [k \in {} |-> 0]]

MapHas(m, k) == k \in DOMAIN m.val

MapGet(m, k) == m.val[k]

MapSet(m, k, v) ==
    IF MapHas(m, k)
    THEN [keys |-> m.keys, val |-> [m.val EXCEPT ![k] = v]]
    ELSE [keys |-> Append(m.keys, k),
          val  |-> [x \in DOMAIN m.val \cup {k} |-> IF x = k THEN v ELSE m.val[x]]]

MapSize(m) == Len(m.keys)

\* Array.from(map.entries())
MapEntries(m) == [i \in 1..Len(m.keys) |-> <<m.keys[i], m.val[m.keys[i]]>>]

\* new Map(entries)
RECURSIVE MapFromEntriesFrom(_, _, _)
MapFromEntriesFrom(entries, i, m) ==
    IF i > Len(entries) THEN m
    ELSE MapFromEntriesFrom(entries, i + 1, MapSet(m, entries[i][1], entries[i][2]))

MapFromEntries(entries) == MapFromEntriesFrom(entries, 1, EmptyMap)

(***************************************************************************)
(* Characters.                                                             *)
(***************************************************************************)
LowerSeq == <<"a","b","c","d","e","f","g","h","i","j","k","l","m",
              "n","o","p","q","r","s","t","u","v","w","x","y","z">>
UpperSeq == <<"A","B","C","D","E","F","G","H","I","J","K","L","M",
              "N","O","P","Q","R","S","T","U","V","W","X","Y","Z">>

LowerChars == Range(LowerSeq)
UpperChars == Range(UpperSeq)

Whitespace == {" ", "\t", "\n"}

\* the character class of the split in tokenizeCode (its last member, the
\* backquote, has no TLA+ string literal and is not a character of the model)
CodeDelims ==
    Whitespace \cup {",", ";", ":", "{", "}", "(", ")", "[", "]", "<", ">", "'", "\"",
                     "=", "+", "-", "*", "/", "\\", "|", "&", "^", "%", "$", "#",
                     "@", "!", "~"}

\* \s and \p{P} (Unicode punctuation) among the ASCII characters
SimpleDelims ==
    Whitespace \cup {"!", "\"", "#", "%", "&", "'", "(", ")", "*", ",", "-", ".", "/",
                     ":", ";", "?", "@", "[", "\\", "]", "_", "{", "}"}

toLowerCaseChar(c) ==
    IF c \in UpperChars
    THEN LowerSeq[CHOOSE i \in DOMAIN UpperSeq : UpperSeq[i] = c]
    ELSE c

toLowerCase(s) == [i \in DOMAIN s |-> toLowerCaseChar(s[i])]

\* the string made of the characters of s
RECURSIVE Str(_)
Str(s) == IF s = <<>> THEN "" ELSE Head(s) \o Str(Tail(s))

(***************************************************************************)
(* String.prototype.split on runs of the characters of D: the pieces       *)
(* between the runs, empty pieces at the ends included.                    *)
(***************************************************************************)
RECURSIVE SplitFrom(_, _, _, _)
SplitFrom(s, i, cur, D) ==
    IF i > Len(s) THEN <<cur>>
    ELSE IF s[i] \in D
         THEN IF i > 1 /\ s[i - 1] \in D
              THEN SplitFrom(s, i + 1, cur, D)
              ELSE <<cur>> \o SplitFrom(s, i + 1, <<>>, D)
         ELSE SplitFrom(s, i + 1, Append(cur, s[i]), D)

Split(s, D) == SplitFrom(s, 1, <<>>, D)

\* segment.replace(/([a-z])([A-Z])/g, "$1 $2")
RECURSIVE camelSplitFrom(_, _)
camelSplitFrom(s, i) ==
    IF i > Len(s) THEN <<>>
    ELSE IF i < Len(s) /\ s[i] \in LowerChars /\ s[i + 1] \in UpperChars
         THEN <<s[i], " ">> \o camelSplitFrom(s, i + 1)
         ELSE <<s[i]>> \o camelSplitFrom(s, i + 1)

camelSplit(s) == camelSplitFrom(s, 1)

\* camelSplit.replace(/[_-]+/g, " ")
RECURSIVE underscoreSplitFrom(_, _)
underscoreSplitFrom(s, i) ==
    IF i > Len(s) THEN <<>>
    ELSE IF s[i] \in {"_", "-"}
         THEN IF i > 1 /\ s[i - 1] \in {"_", "-"}
              THEN underscoreSplitFrom(s, i + 1)
              ELSE <<" ">> \o underscoreSplitFrom(s, i + 1)
         ELSE <<s[i]>> \o underscoreSplitFrom(s, i + 1)

underscoreSplit(s) == underscoreSplitFrom(s, 1)

\* underscoreSplit.replace(/([A-Z]+)([A-Z][a-z])/g, "$1 $2"): a space goes before
\* the last capital of a run of two or more capitals that a small letter follows
RECURSIVE acronymSplitFrom(_, _)
acronymSplitFrom(s, i) ==
    IF i > Len(s) THEN <<>>
    ELSE IF /\ 1 < i /\ i < Len(s)
            /\ s[i - 1] \in UpperChars /\ s[i] \in UpperChars /\ s[i + 1] \in LowerChars
         THEN <<" ", s[i]>> \o acronymSplitFrom(s, i + 1)
         ELSE <<s[i]>> \o acronymSplitFrom(s, i + 1)

acronymSplit(s) == acronymSplitFrom(s, 1)

stopTokens ==
    {"the", "is", "at", "of", "on", "and", "or", "to", "in", "it", "for", "as", "be",
     "by", "an", "if", "do", "no", "so",
     "var", "let", "const", "this", "that", "new", "null", "true", "false"}

\* a tokenizer without the stop list
isStopToken_none(token) == FALSE

isStopToken(token) == token \in stopTokens

\* the tokens one segment gives
RECURSIVE codePartsFrom(_, _)
codePartsFrom(parts, i) ==
    IF i > Len(parts) THEN <<>>
    ELSE LET lower == toLowerCase(parts[i])
         IN (IF Len(lower) > 1 /\ ~isStopToken(Str(lower)) THEN <<Str(lower)>> ELSE <<>>)
            \o codePartsFrom(parts, i + 1)

RECURSIVE codeSegmentsFrom(_, _)
codeSegmentsFrom(segments, i) ==
    IF i > Len(segments) THEN <<>>
    ELSE LET segment == segments[i]
         IN (IF segment = <<>> THEN <<>>
             ELSE codePartsFrom(
                     Split(acronymSplit(underscoreSplit(camelSplit(segment))), Whitespace),
                     1))
            \o codeSegmentsFrom(segments, i + 1)

tokenizeCode(text) == codeSegmentsFrom(Split(text, CodeDelims), 1)

RECURSIVE simplePartsFrom(_, _)
simplePartsFrom(parts, i) ==
    IF i > Len(parts) THEN <<>>
    ELSE (IF Len(parts[i]) > 1 THEN <<Str(parts[i])>> ELSE <<>>)
         \o simplePartsFrom(parts, i + 1)

tokenizeSimple(text) == simplePartsFrom(Split(toLowerCase(text), SimpleDelims), 1)

(***************************************************************************)
(* The texts of the model's callers.                                       *)
(***************************************************************************)
TextRedBlueRed == <<"r","e","d"," ","b","l","u","e"," ","r","e","d">>
TextBlueGreen == <<"b","l","u","e"," ","g","r","e","e","n">>
TextYellow == <<"y","e","l","l","o","w">>
TextNone == <<>>

Texts == {TextRedBlueRed, TextBlueGreen, TextYellow, TextNone}

\* tokenizeCode and tokenizeSimple tabulated over Texts (each text is tokenized once)
TokenTable ==
    [mode \in {"code", "simple"} |->
        [t \in Texts |-> IF mode = "code" THEN tokenizeCode(t) ELSE tokenizeSimple(t)]]

tokenize(config, text) ==
    IF text \in Texts THEN TokenTable[config.tokenMode][text]
    ELSE IF config.tokenMode = "code" THEN tokenizeCode(text) ELSE tokenizeSimple(text)


(***************************************************************************)
(* SparseEmbedding.  k1, b and maxDfRatio are kept in hundredths.          *)
(***************************************************************************)
\* constructor(config = {}): every option at its default
DefaultConfig ==
    [k1 |-> 120, b |-> 75, minDf |-> 1, maxDfRatio |-> 85,
     sublinearTf |-> FALSE, tokenMode |-> "code"]

\* createCodeSparseEmbedding()
CodeConfig ==
    [k1 |-> 150, b |-> 75, minDf |-> 1, maxDfRatio |-> 80,
     sublinearTf |-> FALSE, tokenMode |-> "code"]

\* createTextSparseEmbedding()
TextConfig ==
    [k1 |-> 120, b |-> 75, minDf |-> 2, maxDfRatio |-> 85,
     sublinearTf |-> TRUE, tokenMode |-> "simple"]

\* the object a constructor call leaves
NewEncoder(config) ==
    [config            |-> config,
     vocabulary        |-> EmptyMap,
     documentFrequency |-> EmptyMap,
     totalDocuments    |-> 0,
     avgDocumentLength |-> <<0, 1>>,
     idfCache          |-> EmptyMap,
     isInitialized     |-> FALSE]

\* the elements of s in the order of their first occurrence (Set / Map insertion order)
RECURSIVE FirstOccurrences(_, _, _)
FirstOccurrences(s, i, seen) ==
    IF i > Len(s) THEN <<>>
    ELSE IF s[i] \in seen THEN FirstOccurrences(s, i + 1, seen)
         ELSE <<s[i]>> \o FirstOccurrences(s, i + 1, seen \cup {s[i]})

RECURSIVE Flatten(_, _)
Flatten(ss, i) == IF i > Len(ss) THEN <<>> ELSE ss[i] \o Flatten(ss, i + 1)

RECURSIVE SumLen(_, _)
SumLen(ss, i) == IF i > Len(ss) THEN 0 ELSE Len(ss[i]) + SumLen(ss, i + 1)

\* termDocs.get(term).size: the documents whose unique terms hold term
termDocsSize(tokensOf, term) ==
    Cardinality({d \in DOMAIN tokensOf : term \in Range(tokensOf[d])})

\* maxDfOf with the product rounded up instead of down
maxDfOf_ceil(config, n) == (config.maxDfRatio * n + 99) \div 100

\* Math.floor(this.config.maxDfRatio * documents.length)
maxDfOf(config, n) == (config.maxDfRatio * n) \div 100

\* keepTerm with the upper comparison strict
keepTerm_strict(config, df, maxDf) == df >= config.minDf /\ df < maxDf

\* keepTerm without the upper comparison
keepTerm_minOnly(config, df, maxDf) == df >= config.minDf

\* df >= this.config.minDf && df <= maxDf
keepTerm(config, df, maxDf) == df >= config.minDf /\ df <= maxDf

\* idfOf without the + 1 inside the logarithm
idfOf_plain(n, df) == [num |-> 2 * (n - df) + 1, den |-> 2 * df + 1, plus |-> 0]

\* Math.log((N - df + 0.5) / (df + 0.5) + 1), kept as the logarithm's argument
\* num / den + plus
idfOf(n, df) == [num |-> 2 * (n - df) + 1, den |-> 2 * df + 1, plus |-> 1]

\* the value 0 that `idfCache.get(term) || 0` gives for a missing entry
ZeroIdf == [num |-> 0, den |-> 1, plus |-> 1]

\* the sign of a logarithm log(num / den + plus), den > 0 (NaN and -Infinity count as -1)
IdfSign(v) ==
    IF v.num + v.plus * v.den > v.den THEN 1
    ELSE IF v.num + v.plus * v.den = v.den THEN 0 ELSE -1

\* the loop over termDocs: e after the terms from position i on
RECURSIVE fillVocabulary(_, _, _, _, _)
fillVocabulary(e, terms, i, tokensOf, maxDf) ==
    IF i > Len(terms) THEN e
    ELSE LET term == terms[i]
             df == termDocsSize(tokensOf, term)
         IN IF keepTerm(e.config, df, maxDf)
            THEN fillVocabulary(
                    [e EXCEPT !.vocabulary = MapSet(@, term, MapSize(e.vocabulary)),
                              !.documentFrequency = MapSet(@, term, df),
                              !.idfCache = MapSet(@, term, idfOf(e.totalDocuments, df))],
                    terms, i + 1, tokensOf, maxDf)
            ELSE fillVocabulary(e, terms, i + 1, tokensOf, maxDf)

\* the early return of buildVocabulary on documents.length === 0
buildEmpty(cleared) == [cleared EXCEPT !.isInitialized = TRUE]

buildVocabulary(e, documents) ==
    LET cleared == [e EXCEPT !.vocabulary = EmptyMap,
                             !.documentFrequency = EmptyMap,
                             !.idfCache = EmptyMap,
                             !.totalDocuments = Len(documents)]
        tokensOf == [d \in DOMAIN documents |-> tokenize(e.config, documents[d])]
        terms == FirstOccurrences(Flatten(tokensOf, 1), 1, {})
        counted == [cleared EXCEPT
                       !.avgDocumentLength = Rat(SumLen(tokensOf, 1), Len(documents))]
        filled == fillVocabulary(counted, terms, 1, tokensOf,
                                 maxDfOf(e.config, Len(documents)))
    IN IF Len(documents) = 0
       THEN buildEmpty(cleared)
       ELSE [filled EXCEPT !.isInitialized = TRUE]

\* the number of occurrences of token in tokens
RECURSIVE CountOf(_, _, _)
CountOf(tokens, token, i) ==
    IF i > Len(tokens) THEN 0
    ELSE (IF tokens[i] = token THEN 1 ELSE 0) + CountOf(tokens, token, i + 1)

\* this.avgDocumentLength || 1
avgOrOne(avg) == IF RatIsZero(avg) THEN <<1, 1>> ELSE avg

\* score = idf * (numerator / denominator), kept as the values it is computed from
bm25Score(config, idf, tf, docLength, avg) ==
    [idf |-> idf, tf |-> tf, sublinearTf |-> config.sublinearTf,
     k1 |-> config.k1, b |-> config.b, docLength |-> docLength,
     avgDivisor |-> avgOrOne(avg)]

\* the sign of numerator / denominator.  With sublinearTf and tf > 1 the adjusted
\* tf is 1 + ln(tf) > 1; the denominator is then positive whenever it is positive
\* at the adjusted tf 1, which is all the parameters of the model need.
FactorSign(v) ==
    LET adj == IF v.sublinearTf THEN 1 ELSE v.tf
        \* numerator and denominator times 10000 * avgDivisor's numerator
        numer == adj * (v.k1 + 100)
        denom == adj * 10000 * v.avgDivisor[1]
                 + v.k1 * (100 - v.b) * v.avgDivisor[1]
                 + v.k1 * v.b * v.docLength * v.avgDivisor[2]
        sgn(x) == IF x > 0 THEN 1 ELSE IF x = 0 THEN 0 ELSE -1
    IN IF denom = 0 THEN 0 ELSE sgn(numer) * sgn(denom) * sgn(v.avgDivisor[1])

\* score > 0
scorePositive(v) == IdfSign(v.idf) * FactorSign(v) > 0

\* the loop over termFreq of embed
RECURSIVE embedTerms(_, _, _, _, _)
embedTerms(e, terms, i, tokens, acc) ==
    IF i > Len(terms) THEN acc
    ELSE LET term == terms[i]
             index == MapGet(e.vocabulary, term)
             idf == IF MapHas(e.idfCache, term) /\ IdfSign(MapGet(e.idfCache, term)) # 0
                    THEN MapGet(e.idfCache, term) ELSE ZeroIdf
             score == bm25Score(e.config, idf, CountOf(tokens, term, 1), Len(tokens),
                                e.avgDocumentLength)
         IN embedTerms(e, terms, i + 1, tokens,
                       IF scorePositive(score)
                       THEN [indices |-> Append(acc.indices, index),
                             values  |-> Append(acc.values, score)]
                       ELSE acc)

EmptySparse == [indices |-> <<>>, values |-> <<>>]

\* embedInit without the fallback build
embedInit_none(e, text) == e

\* the vocabulary embed works with: built from the single text when not initialized
embedInit(e, text) == IF e.isInitialized THEN e ELSE buildVocabulary(e, <<text>>)

\* embed(text): the encoder it leaves and the sparse vector it returns
embed(e, text) ==
    LET e1 == embedInit(e, text)
        tokens == tokenize(e1.config, text)
        inVocab == SelectByIndex(tokens,
                                 {i \in DOMAIN tokens : MapHas(e1.vocabulary, tokens[i])}, 1)
        terms == FirstOccurrences(inVocab, 1, {})
    IN [enc |-> e1,
        out |-> IF Len(tokens) = 0 THEN EmptySparse
                ELSE embedTerms(e1, terms, 1, tokens, EmptySparse)]

embedQuery(e, text) == embed(e, text)

exportState(e) ==
    [vocabulary        |-> MapEntries(e.vocabulary),
     documentFrequency |-> MapEntries(e.documentFrequency),
     idfCache          |-> MapEntries(e.idfCache),
     totalDocuments    |-> e.totalDocuments,
     avgDocumentLength |-> e.avgDocumentLength,
     config            |-> e.config]

\* importState that leaves avgDocumentLength as it finds it
importState_keepAvg(e, state) ==
    [config            |-> state.config,
     vocabulary        |-> MapFromEntries(state.vocabulary),
     documentFrequency |-> MapFromEntries(state.documentFrequency),
     idfCache          |-> MapFromEntries(state.idfCache),
     totalDocuments    |-> state.totalDocuments,
     avgDocumentLength |-> e.avgDocumentLength,
     isInitialized     |-> TRUE]

importState(e, state) ==
    [config            |-> state.config,
     vocabulary        |-> MapFromEntries(state.vocabulary),
     documentFrequency |-> MapFromEntries(state.documentFrequency),
     idfCache          |-> MapFromEntries(state.idfCache),
     totalDocuments    |-> state.totalDocuments,
     avgDocumentLength |-> state.avgDocumentLength,
     isInitialized     |-> TRUE]

clear(e) ==
    [e EXCEPT !.vocabulary = EmptyMap,
              !.documentFrequency = EmptyMap,
              !.idfCache = EmptyMap,
              !.totalDocuments = 0,
              !.avgDocumentLength = <<0, 1>>,
              !.isInitialized = FALSE]

\* { ...this.config, ...config }
updateConfig(e, partial) ==
    [e EXCEPT !.config = [f \in DOMAIN e.config |->
                             IF f \in DOMAIN partial THEN partial[f] ELSE e.config[f]]]

isReady(e) == e.isInitialized

(***************************************************************************)
(* The encoder's callers: the texts, corpora and containers they pass.     *)
(***************************************************************************)
Corpora == SeqsUpTo(Texts, MaxDocs)

Configs == {DefaultConfig, CodeConfig, TextConfig}

\* the partial configurations updateConfig is called with
ConfigUpdates == {[maxDfRatio |-> 100]}

\* containers a caller may hold: what exportState returned for some built encoder,
\* and such a container whose idfCache array was lost
BuiltContainers ==
    {exportState(buildVocabulary(NewEncoder(c), d)) :
        c \in Configs, d \in {<<>>, <<TextRedBlueRed, TextBlueGreen>>}}

ImportInputs ==
    BuiltContainers
    \cup {[exportState(buildVocabulary(NewEncoder(DefaultConfig),
                                       <<TextRedBlueRed, TextBlueGreen>>))
              EXCEPT !.idfCache = <<>>]}

NoTrip == [phase |-> 0]

\* a new SparseEmbedding (the constructor with no option, or one of the two
\* factories), and the database side at rest
EncInit ==
    /\ rr = [pc |-> "idle"]
    /\ tk = [pc |-> "idle"]
    /\ cc = CcIdle
    /\ \E c \in Configs : enc = NewEncoder(c)
    /\ lastOp = [op |-> "new"]
    /\ origin = "new"
    /\ trip = NoTrip
    /\ fallback = "none"
    /\ db = [c \in {} |-> 0]
    /\ hybridCollections = {}
    /\ observed = {}
    /\ now = 0
    /\ hs = [pc |-> "idle"]
    /\ st = [pc |-> "idle"]

\* embed and embedQuery leave a completed round trip in place: they change no table
\* of an initialized encoder
tripAfterRead == IF trip.phase = 3 THEN trip ELSE NoTrip

\* the history of the fallback build of embed (part_000:253-260): "degraded" once
\* embed or embedQuery has found the encoder uninitialized with maxDfRatio < 1,
\* "cleared" when clear was called after that, "none" at creation and after
\* buildVocabulary or importState
fallbackAfterEmbed ==
    IF ~enc.isInitialized /\ enc.config.maxDfRatio < 100 THEN "degraded" ELSE fallback

CallBuildVocabulary(documents) ==
    /\ enc' = buildVocabulary(enc, documents)
    /\ lastOp' = [op |-> "buildVocabulary", arg |-> documents]
    /\ origin' = "build"
    /\ trip' = NoTrip
    /\ fallback' = "none"
    /\ UNCHANGED <<dbVars, rr, tk, cc>>

CallEmbed(text) ==
    LET r == embed(enc, text)
    IN /\ enc' = r.enc
       /\ lastOp' = [op |-> "embed", arg |-> text, result |-> r.out,
                     wasInitialized |-> enc.isInitialized]
       /\ origin' = IF enc.isInitialized THEN origin ELSE "build"
       /\ trip' = tripAfterRead
       /\ fallback' = fallbackAfterEmbed
       /\ UNCHANGED <<dbVars, rr, tk, cc>>

CallEmbedQuery(text) ==
    LET r == embedQuery(enc, text)
    IN /\ enc' = r.enc
       /\ lastOp' = [op |-> "embedQuery", arg |-> text, result |-> r.out,
                     wasInitialized |-> enc.isInitialized]
       /\ origin' = IF enc.isInitialized THEN origin ELSE "build"
       /\ trip' = tripAfterRead
       /\ fallback' = fallbackAfterEmbed
       /\ UNCHANGED <<dbVars, rr, tk, cc>>

CallExportState ==
    /\ lastOp' = [op |-> "exportState", result |-> exportState(enc)]
    /\ trip' = [phase |-> 1, s |-> exportState(enc), pre |-> enc, preOrigin |-> origin]
    /\ UNCHANGED <<enc, origin, fallback>>
    /\ UNCHANGED <<dbVars, rr, tk, cc>>

CallImportState(state) ==
    /\ enc' = importState(enc, state)
    /\ lastOp' = [op |-> "importState", arg |-> state]
    /\ origin' = "import"
    /\ trip' = IF trip.phase = 2 /\ state = trip.s
               THEN [trip EXCEPT !.phase = 3] ELSE NoTrip
    /\ fallback' = "none"
    /\ UNCHANGED <<dbVars, rr, tk, cc>>

CallClear ==
    /\ enc' = clear(enc)
    /\ lastOp' = [op |-> "clear"]
    /\ origin' = "clear"
    /\ trip' = IF trip.phase = 1 THEN [trip EXCEPT !.phase = 2] ELSE NoTrip
    /\ fallback' = IF fallback = "degraded" THEN "cleared" ELSE fallback
    /\ UNCHANGED <<dbVars, rr, tk, cc>>

CallUpdateConfig(partial) ==
    /\ enc' = updateConfig(enc, partial)
    /\ lastOp' = [op |-> "updateConfig", arg |-> partial]
    /\ trip' = NoTrip
    /\ UNCHANGED <<origin, fallback>>
    /\ UNCHANGED <<dbVars, rr, tk, cc>>

EncNext ==
    \/ \E documents \in Corpora : CallBuildVocabulary(documents)
    \/ \E text \in Texts : CallEmbed(text)
    \/ \E text \in Texts : CallEmbedQuery(text)
    \/ CallExportState
    \/ \E state \in ImportInputs \cup (IF trip.phase = 2 THEN {trip.s} ELSE {}) :
           CallImportState(state)
    \/ CallClear
    \/ \E partial \in ConfigUpdates : CallUpdateConfig(partial)

EncSpec == EncInit /\ [][EncNext]_vars

(***************************************************************************)
(* QdrantVectorDatabase: parseFilterExpression.  A regular expression is   *)
(* matched as String.match does: at the leftmost position where it         *)
(* matches, greedily.                                                      *)
(***************************************************************************)
\* \w
WordChars == LowerChars \cup UpperChars \cup {"0", "1", "2", "3", "4", "5", "6", "7", "8", "9"} \cup {"_"}

Quotes == {"'", "\""}

\* the position after the longest run of characters of C that starts at i
RECURSIVE runEnd(_, _, _)
runEnd(s, i, C) == IF i <= Len(s) /\ s[i] \in C THEN runEnd(s, i + 1, C) ELSE i

\* the position after the longest run of characters outside C that starts at i
RECURSIVE runEndNot(_, _, _)
runEndNot(s, i, C) == IF i <= Len(s) /\ s[i] \notin C THEN runEndNot(s, i + 1, C) ELSE i

\* s has the characters of word at i, letter case aside
hasAt(s, i, word) ==
    /\ i + Len(word) - 1 <= Len(s)
    /\ \A k \in DOMAIN word : toLowerCaseChar(s[i + k - 1]) = word[k]

NoMatch == [ok |-> FALSE]

\* /(\w+)\s+in\s+\[([^\]]+)\]/i tried at position i
inMatchAt(s, i) ==
    LET a == runEnd(s, i, WordChars)
        b == runEnd(s, a, Whitespace)
        c == runEnd(s, b + 2, Whitespace)
        d == runEndNot(s, c + 1, {"]"})
    IN IF /\ a > i /\ b > a
          /\ hasAt(s, b, <<"i", "n">>)
          /\ c > b + 2
          /\ c <= Len(s) /\ s[c] = "["
          /\ d > c + 1 /\ d <= Len(s)
       THEN [ok |-> TRUE, g1 |-> SubSeq(s, i, a - 1), g2 |-> SubSeq(s, c + 1, d - 1)]
       ELSE NoMatch

\* \s*["']?([^"']+)["']? from the end of the operator at lo, the white space
\* taken up to p: the longest white space first, the quote taken first
RECURSIVE valueMatch(_, _, _)
valueMatch(s, lo, p) ==
    LET q == IF p <= Len(s) /\ s[p] \in Quotes THEN p + 1 ELSE p
        e == runEndNot(s, q, Quotes)
        e0 == runEndNot(s, p, Quotes)
    IN IF e > q THEN [ok |-> TRUE, g2 |-> SubSeq(s, q, e - 1)]
       ELSE IF e0 > p THEN [ok |-> TRUE, g2 |-> SubSeq(s, p, e0 - 1)]
       ELSE IF p > lo THEN valueMatch(s, lo, p - 1)
       ELSE NoMatch

\* /(\w+)\s*==\s*["']?([^"']+)["']?/ tried at position i, and the same
\* expression with != for ==
opMatchAt(s, i, op) ==
    LET a == runEnd(s, i, WordChars)
        b == runEnd(s, a, Whitespace)
        v == valueMatch(s, b + 2, runEnd(s, b + 2, Whitespace))
    IN IF a > i /\ hasAt(s, b, op) /\ SubSeq(s, b, b + 1) = op /\ v.ok
       THEN [ok |-> TRUE, g1 |-> SubSeq(s, i, a - 1), g2 |-> v.g2]
       ELSE NoMatch

\* String.match of an expression without the g flag: the leftmost match
leftmost(s, at(_)) ==
    IF \E i \in DOMAIN s : at(i).ok
    THEN at(CHOOSE i \in DOMAIN s : at(i).ok /\ \A j \in 1..(i - 1) : ~at(j).ok)
    ELSE NoMatch

inMatch(expr) == LET at(i) == inMatchAt(expr, i) IN leftmost(expr, at)
eqMatch(expr) == LET at(i) == opMatchAt(expr, i, <<"=", "=">>) IN leftmost(expr, at)
neqMatch(expr) == LET at(i) == opMatchAt(expr, i, <<"!", "=">>) IN leftmost(expr, at)

\* String.split(","): the pieces between the commas, empty ones included
RECURSIVE splitComma(_, _, _)
splitComma(s, i, cur) ==
    IF i > Len(s) THEN <<cur>>
    ELSE IF s[i] = "," THEN <<cur>> \o splitComma(s, i + 1, <<>>)
    ELSE splitComma(s, i + 1, Append(cur, s[i]))

\* String.trim
trim(s) ==
    LET from == runEnd(s, 1, Whitespace)
        last == IF from > Len(s) THEN from - 1
                ELSE CHOOSE k \in from..Len(s) :
                        /\ s[k] \notin Whitespace
                        /\ \A j \in (k + 1)..Len(s) : s[j] \in Whitespace
    IN SubSeq(s, from, last)

\* v.replace(/['"]/g, "")
stripQuotes(s) == LET keep(c) == c \notin Quotes IN SelectSeq(s, keep)

\* no filter
NoFilter == [kind |-> "undefined", conditions |-> <<>>]

condition(key, value) == [key |-> key, match |-> value]

\* parseFilterExpression(expr): the filter, and whether the warning was logged
parseFilterExpression(expr) ==
    IF trim(expr) = <<>> THEN [filter |-> NoFilter, warned |-> FALSE]
    ELSE IF inMatch(expr).ok
    THEN LET values == splitComma(inMatch(expr).g2, 1, <<>>)
         IN [filter |-> [kind |-> "should",
                         conditions |-> [k \in DOMAIN values |->
                             condition(inMatch(expr).g1, stripQuotes(trim(values[k])))]],
             warned |-> FALSE]
    ELSE IF eqMatch(expr).ok
    THEN [filter |-> [kind |-> "must",
                      conditions |-> <<condition(eqMatch(expr).g1, eqMatch(expr).g2)>>],
          warned |-> FALSE]
    ELSE IF neqMatch(expr).ok
    THEN [filter |-> [kind |-> "must_not",
                      conditions |-> <<condition(neqMatch(expr).g1, neqMatch(expr).g2)>>],
          warned |-> FALSE]
    ELSE [filter |-> NoFilter, warned |-> TRUE]

\* if (options?.filterExpr) filter = this.parseFilterExpression(options.filterExpr):
\* the empty string is no filter expression
filterOf(filterExpr) ==
    IF filterExpr = <<>> THEN [filter |-> NoFilter, warned |-> FALSE]
    ELSE parseFilterExpression(filterExpr)

(***************************************************************************)
(* QdrantVectorDatabase: hybridSearch and search.                          *)
(***************************************************************************)
\* the collections of the backend: "code" has one unnamed vector, "codeHybrid"
\* the named vectors dense and sparse
SearchDb ==
    [c \in {"code", "codeHybrid"} |->
        [vectors |-> IF c = "codeHybrid" THEN "named" ELSE "unnamed", points |-> {}]]

\* the points a search may return: id and payload.id ("" when the payload has none)
Points ==
    {[id |-> "p1", payloadId |-> "a"],
     [id |-> "p2", payloadId |-> ""]}

\* the raw scores of an answer, by position
RankScores == <<2, 1>>

\* an answer of client.search: at most n distinct points, best score first
SearchAnswers(n) ==
    {[i \in DOMAIN r |-> [id |-> r[i].id, payloadId |-> r[i].payloadId,
                          score |-> RankScores[i]]] :
        r \in {q \in SeqsUpTo(Points, IF n < MaxRes THEN n ELSE MaxRes) :
                  /\ Len(q) <= Len(RankScores)
                  /\ \A i, j \in DOMAIN q : i < j => q[i] # q[j]}}

\* request.data: a number[], a SparseVector with or without entries, a string
DenseData == [type |-> "array"]
SparseData == [type |-> "object", indices |-> <<7>>, values |-> <<1>>]
EmptySparseData == [type |-> "object", indices |-> <<>>, values |-> <<>>]
TextData == [type |-> "string"]

\* request.anns_field
FieldVector == <<"v","e","c","t","o","r">>
FieldSparseVector == <<"s","p","a","r","s","e","_","v","e","c","t","o","r">>

\* a request: data, anns_field and limit (0 when the request has none)
Requests ==
    {[data |-> DenseData, anns_field |-> FieldVector, limit |-> 0],
     [data |-> DenseData, anns_field |-> FieldSparseVector, limit |-> 0],
     [data |-> SparseData, anns_field |-> FieldSparseVector, limit |-> 0],
     [data |-> SparseData, anns_field |-> FieldVector, limit |-> 0],
     [data |-> EmptySparseData, anns_field |-> FieldSparseVector, limit |-> 0],
     [data |-> TextData, anns_field |-> FieldVector, limit |-> 0]}

\* String.prototype.includes
Includes(s, sub) ==
    \E i \in 0..(Len(s) - Len(sub)) : \A j \in 1..Len(sub) : s[i + j] = sub[j]

isSparseVector(data) ==
    data.type = "object" /\ "indices" \in DOMAIN data /\ "values" \in DOMAIN data

\* request.anns_field === "sparse_vector" || === "sparse" || includes("sparse")
isSparseField(anns_field) ==
    \/ anns_field = FieldSparseVector
    \/ anns_field = <<"s","p","a","r","s","e">>
    \/ Includes(anns_field, <<"s","p","a","r","s","e">>)

\* the test without its length part
noSparseIndices_undefinedOnly(data) == "indices" \notin DOMAIN data

\* !sparseData.indices || sparseData.indices.length === 0
noSparseIndices(data) == IF "indices" \in DOMAIN data THEN Len(data.indices) = 0 ELSE TRUE

\* a || b for numbers
OrElse(a, b) == IF a = 0 THEN b ELSE a

\* isHybridCollection that takes every answered collection for a hybrid one
isHybridCollection_anyVectors(cache, backend, collectionName, ok) ==
    IF collectionName \in cache
    THEN [answer |-> TRUE, cache |-> cache, calls |-> <<>>, errors |-> {}]
    ELSE IF ~ok \/ collectionName \notin DOMAIN backend
         THEN [answer |-> FALSE, cache |-> cache, calls |-> <<"getCollection">>,
               errors |-> {"getCollection"}]
         ELSE [answer |-> TRUE, cache |-> cache \cup {collectionName},
               calls |-> <<"getCollection">>, errors |-> {}]

\* isHybridCollection: the answer, the cache it leaves, the backend calls it made
\* and those of them that failed; ok tells whether client.getCollection, if it is
\* called, answers (a collection the backend does not have makes it throw)
isHybridCollection(cache, backend, collectionName, ok) ==
    IF collectionName \in cache
    THEN [answer |-> TRUE, cache |-> cache, calls |-> <<>>, errors |-> {}]
    ELSE IF ~ok \/ collectionName \notin DOMAIN backend
         THEN [answer |-> FALSE, cache |-> cache, calls |-> <<"getCollection">>,
               errors |-> {"getCollection"}]
    ELSE IF backend[collectionName].vectors = "named"
         THEN [answer |-> TRUE, cache |-> cache \cup {collectionName},
               calls |-> <<"getCollection">>, errors |-> {}]
         ELSE [answer |-> FALSE, cache |-> cache, calls |-> <<"getCollection">>,
               errors |-> {}]

\* the collections whose mode has been shown by an answer of getCollection
observedAfter(seen, mode, collectionName) ==
    IF mode.calls # <<>> /\ mode.errors = {} THEN seen \cup {collectionName} ELSE seen

\* payload.id || String(result.id)
docIdOf(point) == IF point.payloadId # "" THEN point.payloadId ELSE point.id

\* the loop over searchResult: allResults after the answers from position i on
RECURSIVE collectResults(_, _, _)
collectResults(allResults, searchResult, i) ==
    IF i > Len(searchResult) THEN allResults
    ELSE LET docId == docIdOf(searchResult[i])
             scores == IF MapHas(allResults, docId) THEN MapGet(allResults, docId) ELSE <<>>
         IN collectResults(MapSet(allResults, docId, Append(scores, searchResult[i].score)),
                           searchResult, i + 1)

\* the vector name of the dense branch of hybridSearch
denseVectorName(isHybrid) == IF isHybrid THEN "dense" ELSE "unnamed"

\* the vector name of the sparse branch of hybridSearch
sparseVectorName(isHybrid) == "sparse"

\* the vector search() addresses
searchVectorName(isHybrid) == IF isHybrid THEN "dense" ELSE "unnamed"

(***************************************************************************)
(* applyReranking.  A fused score is an exact rational.                    *)
(***************************************************************************)
\* rerank?.params?.k || 60
rrfK(rerank) == OrElse(rerank.k, 60)

\* scores.reduce((sum, _, idx) => sum + 1 / (k + idx + 1), 0)
RECURSIVE rrfScore(_, _, _)
rrfScore(scores, k, idx) ==
    IF idx >= Len(scores) THEN <<0, 1>>
    ELSE RatAdd(<<1, k + idx + 1>>, rrfScore(scores, k, idx + 1))

\* weights[i] || 1 / scores.length, i counted from 0
weightAt(weights, i, n) ==
    IF i + 1 \in DOMAIN weights /\ ~RatIsZero(weights[i + 1]) THEN weights[i + 1] ELSE <<1, n>>

RECURSIVE weightedScore(_, _, _)
weightedScore(scores, weights, i) ==
    IF i >= Len(scores) THEN <<0, 1>>
    ELSE RatAdd(RatMul(<<scores[i + 1], 1>>, weightAt(weights, i, Len(scores))),
                weightedScore(scores, weights, i + 1))

RECURSIVE SumSeq(_, _)
SumSeq(s, i) == IF i > Len(s) THEN 0 ELSE s[i] + SumSeq(s, i + 1)

\* scores.reduce((a, b) => a + b, 0) / scores.length
avgScore(scores) == Rat(SumSeq(scores, 1), Len(scores))

\* rerank?.strategy || "rrf"
strategyOf(rerank) == IF rerank.strategy = "" THEN "rrf" ELSE rerank.strategy

\* rerank?.params?.weights || [0.5, 0.5]
weightsOf(rerank) == IF rerank.weights = <<>> THEN <<(<<1, 2>>), (<<1, 2>>)>> ELSE rerank.weights

fusedScore(scores, rerank) ==
    IF strategyOf(rerank) = "rrf" THEN rrfScore(scores, rrfK(rerank), 0)
    ELSE IF strategyOf(rerank) = "weighted" THEN weightedScore(scores, weightsOf(rerank), 0)
    ELSE avgScore(scores)

\* a sort that puts an entry before the earlier entries of its score
RECURSIVE insertSorted_unstable(_, _)
insertSorted_unstable(sorted, x) ==
    IF sorted = <<>> THEN <<x>>
    ELSE IF ~RatLess(x.score, sorted[Len(sorted)].score)
         THEN Append(insertSorted_unstable(SubSeq(sorted, 1, Len(sorted) - 1), x),
                     sorted[Len(sorted)])
         ELSE Append(sorted, x)

\* rankedResults.sort((a, b) => b.score - a.score): stable, best score first
RECURSIVE insertSorted(_, _)
insertSorted(sorted, x) ==
    IF sorted = <<>> THEN <<x>>
    ELSE IF RatLess(sorted[Len(sorted)].score, x.score)
         THEN Append(insertSorted(SubSeq(sorted, 1, Len(sorted) - 1), x), sorted[Len(sorted)])
         ELSE Append(sorted, x)

RECURSIVE sortByScore(_, _)
sortByScore(s, n) == IF n = 0 THEN <<>> ELSE insertSorted(sortByScore(s, n - 1), s[n])

applyReranking(results, rerank) ==
    LET rankedResults ==
            [i \in 1..MapSize(results) |->
                [id |-> results.keys[i],
                 score |-> fusedScore(MapGet(results, results.keys[i]), rerank)]]
    IN sortByScore(rankedResults, Len(rankedResults))

\* options?.rerank: absent, or a strategy with params.k and params.weights
\* (k = 0 and weights = <<>> stand for an absent parameter)
NoRerank == [strategy |-> "", k |-> 0, weights |-> <<>>]

RerankOptions ==
    {NoRerank,
     [strategy |-> "rrf", k |-> 1, weights |-> <<>>],
     [strategy |-> "weighted", k |-> 0, weights |-> <<>>],
     [strategy |-> "weighted", k |-> 0, weights |-> <<(<<0, 1>>), (<<3, 1>>)>>],
     [strategy |-> "weighted", k |-> 0, weights |-> <<(<<1, 1>>), (<<3, 1>>)>>],
     [strategy |-> "average", k |-> 0, weights |-> <<>>]}

\* options?.limit: absent (0) or a number
LimitOptions == {0, 1}

HsIdle == [pc |-> "idle"]

\* a call without options.filterExpr
NoFilterExpr == <<>>

\* hybridSearch is called: limit is read, allResults is the empty Map.  The request
\* array is read one element per turn of the loop and the model draws each
\* element when the loop reads it; options.rerank is drawn where it is read.
StartHybridSearch(collectionName, limitOption, filterExpr) ==
    /\ hs.pc = "idle"
    /\ hs' = [pc |-> "loop", op |-> "hybridSearch", collectionName |-> collectionName,
              limit |-> OrElse(limitOption, 10),
              filterExpr |-> filterExpr, warnings |-> 0,
              requests |-> <<>>, searches |-> <<>>, calls |-> <<>>, errors |-> {},
              allResults |-> EmptyMap]
    /\ UNCHANGED <<db, hybridCollections, observed, now, st>>
    /\ UNCHANGED <<encVars, rr, tk, cc>>

\* one turn of the loop for a request that is skipped before any backend call
HsSkipText(request) ==
    /\ hs.pc = "loop" /\ Len(hs.requests) < MaxReq
    /\ request.data.type = "string"
    /\ hs' = [hs EXCEPT !.requests = Append(@, request)]
    /\ UNCHANGED <<db, hybridCollections, observed, now, st>>
    /\ UNCHANGED <<encVars, rr, tk, cc>>

\* one turn for a request taken as sparse that has no indices: skipped after the
\* collection mode was looked up
HsSkipSparse(request, ok) ==
    LET mode == isHybridCollection(hybridCollections, db, hs.collectionName, ok)
    IN /\ hs.pc = "loop" /\ Len(hs.requests) < MaxReq
       /\ request.data.type # "string"
       /\ isSparseVector(request.data) \/ isSparseField(request.anns_field)
       /\ noSparseIndices(request.data)
       /\ hybridCollections' = mode.cache
       /\ observed' = observedAfter(observed, mode, hs.collectionName)
       /\ hs' = [hs EXCEPT !.requests = Append(@, request),
                           !.calls = @ \o mode.calls,
                           !.errors = @ \cup mode.errors,
                           !.warnings = IF filterOf(hs.filterExpr).warned THEN @ + 1 ELSE @]
       /\ UNCHANGED <<db, now, st>>
       /\ UNCHANGED <<encVars, rr, tk, cc>>

\* one turn for a request that is searched: on the sparse vector when the data or
\* the field name is sparse, else on the dense or the unnamed vector
HsSearch(request, ok) ==
    LET mode == isHybridCollection(hybridCollections, db, hs.collectionName, ok)
        sparse == isSparseVector(request.data) \/ isSparseField(request.anns_field)
        name == IF sparse THEN sparseVectorName(mode.answer)
                ELSE denseVectorName(mode.answer)
    IN /\ hs.pc = "loop" /\ Len(hs.requests) < MaxReq
       /\ request.data.type # "string"
       /\ ~(sparse /\ noSparseIndices(request.data))
       /\ \E searchResult \in SearchAnswers(OrElse(request.limit, hs.limit)) :
             hs' = [hs EXCEPT
                      !.requests = Append(@, request),
                      !.calls = @ \o mode.calls \o <<"search">>,
                      !.errors = @ \cup mode.errors,
                      !.warnings = IF filterOf(hs.filterExpr).warned THEN @ + 1 ELSE @,
                      !.searches = Append(@, [request |-> Len(hs.requests) + 1,
                                              vector |-> name,
                                              limit |-> OrElse(request.limit, hs.limit),
                                              filter |-> filterOf(hs.filterExpr).filter,
                                              answer |-> searchResult]),
                      !.allResults = collectResults(@, searchResult, 1)]
       /\ hybridCollections' = mode.cache
       /\ observed' = observedAfter(observed, mode, hs.collectionName)
       /\ UNCHANGED <<db, now, st>>
       /\ UNCHANGED <<encVars, rr, tk, cc>>

\* one turn for a request whose client.search fails: hybridSearch rethrows the error
HsSearchFails(request, ok) ==
    LET mode == isHybridCollection(hybridCollections, db, hs.collectionName, ok)
        sparse == isSparseVector(request.data) \/ isSparseField(request.anns_field)
        name == IF sparse THEN sparseVectorName(mode.answer)
                ELSE denseVectorName(mode.answer)
    IN /\ hs.pc = "loop" /\ Len(hs.requests) < MaxReq
       /\ request.data.type # "string"
       /\ ~(sparse /\ noSparseIndices(request.data))
       /\ hs' = [pc |-> "failed", op |-> "hybridSearch",
                 collectionName |-> hs.collectionName, limit |-> hs.limit,
                 filterExpr |-> hs.filterExpr,
                 warnings |-> IF filterOf(hs.filterExpr).warned THEN hs.warnings + 1
                              ELSE hs.warnings,
                 requests |-> Append(hs.requests, request),
                 searches |-> Append(hs.searches,
                                     [request |-> Len(hs.requests) + 1, vector |-> name,
                                      limit |-> OrElse(request.limit, hs.limit),
                                      filter |-> filterOf(hs.filterExpr).filter,
                                      answer |-> <<>>]),
                 calls |-> hs.calls \o mode.calls \o <<"search">>,
                 errors |-> hs.errors \cup mode.errors \cup {"search"},
                 thrown |-> "search"]
       /\ hybridCollections' = mode.cache
       /\ observed' = observedAfter(observed, mode, hs.collectionName)
       /\ UNCHANGED <<db, now, st>>
       /\ UNCHANGED <<encVars, rr, tk, cc>>

\* the array had no further request: fuse, sort, cut to limit, return
HsReturn(rerank) ==
    /\ hs.pc = "loop"
    /\ hs' = [pc |-> "done", op |-> "hybridSearch", collectionName |-> hs.collectionName,
              limit |-> hs.limit, filterExpr |-> hs.filterExpr, warnings |-> hs.warnings,
              requests |-> hs.requests, searches |-> hs.searches,
              calls |-> hs.calls, errors |-> hs.errors,
              allResults |-> hs.allResults, rerank |-> rerank,
              result |-> SubSeq(applyReranking(hs.allResults, rerank), 1,
                                IF hs.limit < MapSize(hs.allResults)
                                THEN hs.limit ELSE MapSize(hs.allResults))]
    /\ UNCHANGED <<db, hybridCollections, observed, now, st>>
    /\ UNCHANGED <<encVars, rr, tk, cc>>

\* search(collectionName, queryVector, options), from call to return
CallSearch(collectionName, limitOption, filterExpr, ok) ==
    LET mode == isHybridCollection(hybridCollections, db, collectionName, ok)
    IN /\ hs.pc = "idle"
       /\ \E searchResult \in SearchAnswers(OrElse(limitOption, 10)) :
             hs' = [pc |-> "done", op |-> "search", collectionName |-> collectionName,
                    limit |-> OrElse(limitOption, 10),
                    filterExpr |-> filterExpr,
                    warnings |-> IF filterOf(filterExpr).warned THEN 1 ELSE 0,
                    filter |-> filterOf(filterExpr).filter,
                    calls |-> mode.calls \o <<"search">>,
                    errors |-> mode.errors,
                    vector |-> searchVectorName(mode.answer),
                    result |-> [i \in DOMAIN searchResult |->
                                   [id |-> docIdOf(searchResult[i]),
                                    score |-> searchResult[i].score]]]
       /\ hybridCollections' = mode.cache
       /\ observed' = observedAfter(observed, mode, collectionName)
       /\ UNCHANGED <<db, now, st>>
       /\ UNCHANGED <<encVars, rr, tk, cc>>

\* search(collectionName, queryVector, options) when client.search fails: the
\* error is rethrown
CallSearchFails(collectionName, limitOption, filterExpr, ok) ==
    LET mode == isHybridCollection(hybridCollections, db, collectionName, ok)
    IN /\ hs.pc = "idle"
       /\ hs' = [pc |-> "failed", op |-> "search", collectionName |-> collectionName,
                 limit |-> OrElse(limitOption, 10),
                 filterExpr |-> filterExpr,
                 warnings |-> IF filterOf(filterExpr).warned THEN 1 ELSE 0,
                 filter |-> filterOf(filterExpr).filter,
                 calls |-> mode.calls \o <<"search">>,
                 errors |-> mode.errors \cup {"search"},
                 vector |-> searchVectorName(mode.answer),
                 thrown |-> "search"]
       /\ hybridCollections' = mode.cache
       /\ observed' = observedAfter(observed, mode, collectionName)
       /\ UNCHANGED <<db, now, st>>
       /\ UNCHANGED <<encVars, rr, tk, cc>>

\* the caller has the result or the error of its call and may call again
HsSettled ==
    /\ hs.pc \in {"done", "failed"}
    /\ hs' = HsIdle
    /\ UNCHANGED <<db, hybridCollections, observed, now, st>>
    /\ UNCHANGED <<encVars, rr, tk, cc>>

\* a dispatcher with an empty mode cache, or one that created "codeHybrid" itself
SearchInit ==
    /\ rr = [pc |-> "idle"]
    /\ tk = [pc |-> "idle"]
    /\ cc = CcIdle
    /\ db = SearchDb
    /\ hybridCollections \in {{}, {"codeHybrid"}}
    /\ observed = {}
    /\ now = 0
    /\ hs = HsIdle
    /\ st = [pc |-> "idle"]
    /\ enc = NewEncoder(DefaultConfig)
    /\ lastOp = [op |-> "new"]
    /\ origin = "new"
    /\ trip = NoTrip
    /\ fallback = "none"

SearchNext ==
    \/ \E c \in DOMAIN db, l \in LimitOptions : StartHybridSearch(c, l, NoFilterExpr)
    \/ \E request \in Requests : HsSkipText(request)
    \/ \E request \in Requests, ok \in BOOLEAN : HsSkipSparse(request, ok)
    \/ \E request \in Requests, ok \in BOOLEAN : HsSearch(request, ok)
    \/ \E request \in Requests, ok \in BOOLEAN : HsSearchFails(request, ok)
    \/ \E rerank \in RerankOptions : HsReturn(rerank)
    \/ \E c \in DOMAIN db, l \in LimitOptions, ok \in BOOLEAN : CallSearch(c, l, NoFilterExpr, ok)
    \/ \E c \in DOMAIN db, l \in LimitOptions, ok \in BOOLEAN : CallSearchFails(c, l, NoFilterExpr, ok)
    \/ HsSettled

SearchSpec == SearchInit /\ [][SearchNext]_vars

\* query(collectionName, filter, outputFields, limit) with outputFields ["id"],
\* from call to return: client.scroll with the parsed filter
CallQuery(collectionName, filter, limitOption) ==
    /\ hs.pc = "idle"
    /\ \E answer \in SearchAnswers(OrElse(limitOption, 100)) :
          hs' = [pc |-> "done", op |-> "query", collectionName |-> collectionName,
                 limit |-> OrElse(limitOption, 100),
                 filterExpr |-> filter,
                 warnings |-> IF filterOf(filter).warned THEN 1 ELSE 0,
                 filter |-> filterOf(filter).filter,
                 calls |-> <<"scroll">>, errors |-> {},
                 result |-> [i \in DOMAIN answer |-> [id |-> answer[i].payloadId]]]
    /\ UNCHANGED <<db, hybridCollections, observed, now, st>>
    /\ UNCHANGED <<encVars, rr, tk, cc>>

\* query when client.scroll fails: the error is rethrown
CallQueryFails(collectionName, filter, limitOption) ==
    /\ hs.pc = "idle"
    /\ hs' = [pc |-> "failed", op |-> "query", collectionName |-> collectionName,
              limit |-> OrElse(limitOption, 100),
              filterExpr |-> filter,
              warnings |-> IF filterOf(filter).warned THEN 1 ELSE 0,
              filter |-> filterOf(filter).filter,
              calls |-> <<"scroll">>, errors |-> {"scroll"},
              thrown |-> "scroll"]
    /\ UNCHANGED <<db, hybridCollections, observed, now, st>>
    /\ UNCHANGED <<encVars, rr, tk, cc>>

(***************************************************************************)
(* The filter expressions of the callers: a field, an operator and values, *)
(* written out as text.                                                    *)
(***************************************************************************)
FilterFields == {<<"f">>}

PlainValues == {<<"a">>, <<".", "t", "s">>}

\* values that hold the text of an operator
OperatorValues ==
    {<<"a", "=", "=", "b">>, <<"a", "!", "=", "b">>,
     <<"x", " ", "i", "n", " ", "[", "y", "]">>}

QuoteMarks == {<<"'">>, <<"\"">>}

\* an expression: values without quotes are plain, the operators other than in
\* have one value, ~ is no operator of the parser
FilterExprs ==
    {e \in [field : FilterFields, op : {"in", "==", "!=", "~"},
            values : SeqsUpTo(PlainValues \cup OperatorValues, MaxValues),
            quote : QuoteMarks \cup {<<>>}] :
        /\ e.op # "in" => Len(e.values) = 1
        /\ e.quote = <<>> => Range(e.values) \subseteq PlainValues}

opText(op) ==
    CASE op = "==" -> <<"=", "=">>
      [] op = "!=" -> <<"!", "=">>
      [] op = "~" -> <<"~">>

\* the values of a list, in quotes, with ", " between them
RECURSIVE valueList(_, _)
valueList(e, k) ==
    IF k > Len(e.values) THEN <<>>
    ELSE (IF k > 1 THEN <<",", " ">> ELSE <<>>)
            \o e.quote \o e.values[k] \o e.quote \o valueList(e, k + 1)

\* the text of an expression
render(e) ==
    IF e.op = "in"
    THEN e.field \o <<" ", "i", "n", " ", "[">> \o valueList(e, 1) \o <<"]">>
    ELSE e.field \o <<" ">> \o opText(e.op) \o <<" ">> \o valueList(e, 1)

RenderTable == [e \in FilterExprs |-> render(e)]

\* an expression of white space only
BlankExpr == <<" ", " ">>

\* the filter expressions the calls pass
FilterTexts == Range(RenderTable) \cup {NoFilterExpr, BlankExpr}

\* the expressions that hybridSearch is called with
HybridFilterTexts ==
    {NoFilterExpr,
     render([field |-> <<"f">>, op |-> "~", values |-> << <<"a">> >>, quote |-> <<>>]),
     render([field |-> <<"f">>, op |-> "==", values |-> << <<"a">> >>, quote |-> <<"'">>]),
     render([field |-> <<"f">>, op |-> "!=", values |-> << <<"a", "=", "=", "b">> >>,
             quote |-> <<"\"">>])}

\* the requests of hybridSearch in the calls with a filter expression
FilterRequests ==
    {[data |-> DenseData, anns_field |-> FieldVector, limit |-> 0],
     [data |-> EmptySparseData, anns_field |-> FieldSparseVector, limit |-> 0],
     [data |-> TextData, anns_field |-> FieldVector, limit |-> 0]}

FilterInit ==
    /\ rr = [pc |-> "idle"]
    /\ tk = [pc |-> "idle"]
    /\ cc = CcIdle
    /\ db = SearchDb
    /\ hybridCollections = {}
    /\ observed = {}
    /\ now = 0
    /\ hs = HsIdle
    /\ st = [pc |-> "idle"]
    /\ enc = NewEncoder(DefaultConfig)
    /\ lastOp = [op |-> "new"]
    /\ origin = "new"
    /\ trip = NoTrip
    /\ fallback = "none"

\* search, hybridSearch and query with a filter expression
FilterNext ==
    \/ \E c \in DOMAIN db, f \in HybridFilterTexts : StartHybridSearch(c, 0, f)
    \/ \E request \in FilterRequests : HsSkipText(request)
    \/ \E request \in FilterRequests, ok \in BOOLEAN : HsSkipSparse(request, ok)
    \/ \E request \in FilterRequests, ok \in BOOLEAN : HsSearch(request, ok)
    \/ \E request \in FilterRequests, ok \in BOOLEAN : HsSearchFails(request, ok)
    \/ HsReturn(NoRerank)
    \/ \E c \in DOMAIN db, f \in FilterTexts, ok \in BOOLEAN : CallSearch(c, 0, f, ok)
    \/ \E c \in DOMAIN db, f \in FilterTexts, ok \in BOOLEAN : CallSearchFails(c, 0, f, ok)
    \/ \E c \in DOMAIN db, f \in FilterTexts : CallQuery(c, f, 0)
    \/ \E c \in DOMAIN db, f \in FilterTexts : CallQueryFails(c, f, 0)
    \/ HsSettled

FilterSpec == FilterInit /\ [][FilterNext]_vars

(***************************************************************************)
(* QdrantVectorDatabase: stringToUuid, insert, insertHybrid, delete.       *)
(***************************************************************************)
HexDigits == <<"0","1","2","3","4","5","6","7","8","9","a","b","c","d","e","f">>

\* Number.prototype.toString(16) of a number >= 0
RECURSIVE toHex(_)
toHex(n) == IF n < 16 THEN <<HexDigits[n + 1]>>
            ELSE Append(toHex(n \div 16), HexDigits[(n % 16) + 1])

\* String.prototype.padStart(width, "0")
RECURSIVE padStart(_, _)
padStart(s, width) == IF Len(s) >= width THEN s ELSE padStart(<<"0">> \o s, width)

\* String.prototype.slice(from, to) with 0 <= from
slice(s, from, to) == SubSeq(s, from + 1, IF to < Len(s) THEN to ELSE Len(s))

\* String.prototype.slice(-n)
sliceLast(s, n) == SubSeq(s, IF Len(s) > n THEN Len(s) - n + 1 ELSE 1, Len(s))

\* charCodeAt for the characters of the ids: A, B, the digits, a to f
charCode(c) ==
    IF c = "A" THEN 65
    ELSE IF c = "B" THEN 66
    ELSE LET d == CHOOSE i \in DOMAIN HexDigits : HexDigits[i] = c
         IN IF d <= 10 THEN 47 + d ELSE 86 + d

\* (hash << 5) - hash + char as a 32-bit signed integer, computed on 16-bit halves
hashStep(hash, char) ==
    LET lo == 31 * (hash % 65536) + char
        hi == (31 * ((hash \div 65536) % 65536) + (lo \div 65536)) % 65536
    IN (IF hi >= 32768 THEN hi - 65536 ELSE hi) * 65536 + (lo % 65536)

RECURSIVE hashFrom(_, _, _)
hashFrom(str, hash, i) ==
    IF i > Len(str) THEN hash ELSE hashFrom(str, hashStep(hash, charCode(str[i])), i + 1)

\* the clock counts from an instant whose hexadecimal form ends in 0000
Epoch == 16 * 16 * 16 * 16 * 16

\* Date.now()
DateNow(clock) == Epoch + clock

\* stringToUuid(str) when Date.now() returns time
stringToUuid(str, time) ==
    LET hash == hashFrom(str, 0, 1)
        hex == padStart(toHex(Abs(hash)), 8)
        hex2 == padStart(toHex(Len(str)), 4)
        hex3 == sliceLast(toHex(time), 4)
        fullHash == hashFrom(str, 0, 1)
        hex4 == slice(padStart(toHex(Abs(fullHash)), 4), 0, 4)
        hex5 == slice(padStart(toHex(Abs(fullHash \div 65536)), 12), 0, 12)
    IN slice(hex, 0, 8) \o <<"-">> \o hex2 \o <<"-", "4">> \o slice(hex3, 1, Len(hex3))
       \o <<"-">> \o hex4 \o <<"-">> \o hex5

\* document ids
IdAa == <<"A", "a">>
IdB1 == <<"b", "1">>

IdBB == <<"B", "B">>

DocIds == {IdAa, IdB1}

\* ids of equal length whose characters give the same hash
CollidingIds == {IdAa, IdBB}

\* n documents with the ids b1, b2, ... (the number in hexadecimal)
ManyIds(n) == [k \in 1..n |-> <<"b">> \o toHex(k)]

\* the backend of insert and delete: one collection, no points
StoreDb == [c \in {"code"} |-> [vectors |-> "unnamed", points |-> {}]]

batchSize == 100

\* client.upsert: a point replaces the point with its id
upsert(points, batch) ==
    {q \in points : \A k \in DOMAIN batch : batch[k].id # q.id} \cup Range(batch)

\* client.delete by point ids: ids that address no point are passed over
deletePoints(points, pointIds) == {q \in points : q.id \notin Range(pointIds)}

\* a batch loop that sends all the remaining points at once
nextBatch_rest(points, i) == slice(points, i, Len(points))

\* points.slice(i, i + batchSize)
nextBatch(points, i) == slice(points, i, i + batchSize)

\* nothing thrown
NoError == <<>>

\* the error client.upsert or client.delete rejects with
BackendError(call) == [from |-> call]

StIdle == [pc |-> "idle"]

\* insert or insertHybrid is called with documents that carry the given ids
StartInsert(op, collectionName, ids) ==
    /\ st.pc \in {"idle", "done", "failed"}
    /\ st' = [pc |-> "map", op |-> op, collectionName |-> collectionName,
              ids |-> ids, points |-> <<>>, i |-> 0,
              sent |-> <<>>, pending |-> FALSE, thrown |-> NoError]
    /\ UNCHANGED <<db, hybridCollections, observed, now, hs>>
    /\ UNCHANGED <<encVars, rr, tk, cc>>

\* delete is called
StartDelete(collectionName, ids) ==
    /\ st.pc \in {"idle", "done", "failed"}
    /\ st' = [pc |-> "map", op |-> "delete", collectionName |-> collectionName,
              ids |-> ids, points |-> <<>>, i |-> 0,
              sent |-> <<>>, pending |-> FALSE, thrown |-> NoError]
    /\ UNCHANGED <<db, hybridCollections, observed, now, hs>>
    /\ UNCHANGED <<encVars, rr, tk, cc>>

\* one turn of documents.map or ids.map: the next id is mapped at the present time
MapId ==
    /\ st.pc = "map" /\ Len(st.points) < Len(st.ids)
    /\ LET id == st.ids[Len(st.points) + 1]
           pointId == stringToUuid(id, DateNow(now))
       IN st' = [st EXCEPT !.points =
                    Append(@, IF st.op = "delete" THEN pointId
                              ELSE [id |-> pointId,
                                    vector |-> IF st.op = "insertHybrid" THEN "named"
                                               ELSE "unnamed",
                                    payloadId |-> id])]
    /\ UNCHANGED <<db, hybridCollections, observed, now, hs>>
    /\ UNCHANGED <<encVars, rr, tk, cc>>

\* the clock advances by a millisecond
Tick ==
    /\ now < MaxNow
    /\ now' = now + 1
    /\ UNCHANGED <<db, hybridCollections, observed, hs, st>>
    /\ UNCHANGED <<encVars, rr, tk, cc>>

\* one turn of the batch loop of insert and insertHybrid: the next batch is sent
\* with client.upsert, which the loop awaits
UpsertSend ==
    /\ st.pc = "map" /\ st.op # "delete"
    /\ Len(st.points) = Len(st.ids) /\ st.i < Len(st.points)
    /\ ~st.pending
    /\ st' = [st EXCEPT !.pending = TRUE,
                        !.sent = Append(@, nextBatch(st.points, st.i))]
    /\ UNCHANGED <<db, hybridCollections, observed, now, hs>>
    /\ UNCHANGED <<encVars, rr, tk, cc>>

\* client.upsert succeeds: the batch is in the collection and the loop goes on
Upsert ==
    /\ st.pc = "map" /\ st.op # "delete"
    /\ st.pending
    /\ db' = [db EXCEPT ![st.collectionName].points = upsert(@, nextBatch(st.points, st.i))]
    /\ st' = [st EXCEPT !.i = @ + batchSize, !.pending = FALSE]
    /\ UNCHANGED <<hybridCollections, observed, now, hs>>
    /\ UNCHANGED <<encVars, rr, tk, cc>>

\* insert and insertHybrid return when the batches are through
InsertReturn ==
    /\ st.pc = "map" /\ st.op # "delete"
    /\ Len(st.points) = Len(st.ids) /\ st.i >= Len(st.points)
    /\ ~st.pending
    /\ st' = [st EXCEPT !.pc = "done"]
    /\ UNCHANGED <<db, hybridCollections, observed, now, hs>>
    /\ UNCHANGED <<encVars, rr, tk, cc>>

\* client.delete succeeds and delete returns
DeleteReturn ==
    /\ st.pc = "map" /\ st.op = "delete"
    /\ Len(st.points) = Len(st.ids)
    /\ db' = [db EXCEPT ![st.collectionName].points = deletePoints(@, st.points)]
    /\ st' = [st EXCEPT !.pc = "done"]
    /\ UNCHANGED <<hybridCollections, observed, now, hs>>
    /\ UNCHANGED <<encVars, rr, tk, cc>>

\* the awaited client.upsert, or client.delete, fails: nothing of the request is
\* in the collection, the error is logged and rethrown as it is
BackendFails ==
    /\ st.pc = "map"
    /\ Len(st.points) = Len(st.ids)
    /\ IF st.op = "delete" THEN TRUE ELSE st.pending
    /\ st' = [st EXCEPT !.pc = "failed", !.pending = FALSE,
                        !.thrown = BackendError(IF st.op = "delete" THEN "delete"
                                                ELSE "upsert")]
    /\ UNCHANGED <<db, hybridCollections, observed, now, hs>>
    /\ UNCHANGED <<encVars, rr, tk, cc>>

StoreInit ==
    /\ rr = [pc |-> "idle"]
    /\ tk = [pc |-> "idle"]
    /\ cc = CcIdle
    /\ db = StoreDb
    /\ hybridCollections = {}
    /\ observed = {}
    /\ now = 0
    /\ hs = HsIdle
    /\ st = StIdle
    /\ enc = NewEncoder(DefaultConfig)
    /\ lastOp = [op |-> "new"]
    /\ origin = "new"
    /\ trip = NoTrip
    /\ fallback = "none"

StoreNext ==
    \/ \E op \in {"insert", "insertHybrid"}, c \in DOMAIN db, ids \in SeqsUpTo(DocIds, MaxIds) :
          StartInsert(op, c, ids)
    \/ \E c \in DOMAIN db, ids \in SeqsUpTo(DocIds, MaxIds) : StartDelete(c, ids)
    \/ MapId
    \/ Tick
    \/ UpsertSend
    \/ Upsert
    \/ InsertReturn
    \/ DeleteReturn
    \/ BackendFails

StoreSpec == StoreInit /\ [][StoreNext]_vars

\* insert, insertHybrid and delete of the documents Aa and BB
CollideNext ==
    \/ \E op \in {"insert", "insertHybrid"}, c \in DOMAIN db,
          ids \in SeqsUpTo(CollidingIds, MaxIds) : StartInsert(op, c, ids)
    \/ \E c \in DOMAIN db, ids \in SeqsUpTo(CollidingIds, MaxIds) : StartDelete(c, ids)
    \/ MapId
    \/ Tick
    \/ UpsertSend
    \/ Upsert
    \/ InsertReturn
    \/ DeleteReturn
    \/ BackendFails

CollideSpec == StoreInit /\ [][CollideNext]_vars

\* the document lists of the large inserts
ManyLists == {ManyIds(MaxMany - 1), ManyIds(MaxMany)}

\* one insert or insertHybrid on the empty collection, of few or of many
\* documents; documents.map runs without a tick of the clock
BatchNext ==
    \/ \E op \in {"insert", "insertHybrid"}, c \in DOMAIN db,
          ids \in SeqsUpTo(DocIds, MaxIds) \cup ManyLists :
          st.pc = "idle" /\ StartInsert(op, c, ids)
    \/ MapId
    \/ (st.pc = "map" /\ Len(st.points) = Len(st.ids)) /\ Tick
    \/ UpsertSend
    \/ Upsert
    \/ InsertReturn
    \/ BackendFails

BatchSpec == StoreInit /\ [][BatchNext]_vars

(***************************************************************************)
(* QdrantVectorDatabase: hasCollection, createCollection and               *)
(* createHybridCollection.  Each of them awaits the backend twice at most: *)
(* client.getCollections inside hasCollection, then                        *)
(* client.createCollection.  Calls of several callers interleave at these  *)
(* awaits.  The backend rejects the creation of a collection it has.       *)
(***************************************************************************)
CreateNames == {"code", "docs"}

\* the dimension of the dense vectors
Dimensions == {768}

\* the backends a QdrantVectorDatabase is connected to: without collections, or
\* with the collection "code" holding one unnamed vector or the named vectors
CreateDbs ==
    {[c \in {} |-> 0]}
    \cup {[c \in {"code"} |-> [vectors |-> v, size |-> 768, points |-> {}]] :
             v \in {"unnamed", "named"}}

\* the body of the creation request of createCollection and createHybridCollection
createRequest(op, collectionName, dimension) ==
    [name |-> collectionName,
     vectors |-> IF op = "createHybridCollection" THEN "named" ELSE "unnamed",
     size |-> dimension]

\* collections.collections.some((c) => c.name === collectionName)
hasCollection(backend, collectionName) == collectionName \in DOMAIN backend

\* the backend with the collection of a creation request added
withCollection(backend, request) ==
    [c \in DOMAIN backend \cup {request.name} |->
        IF c = request.name
        THEN [vectors |-> request.vectors, size |-> request.size, points |-> {}]
        ELSE backend[c]]

\* another caller is suspended at its existence check for the same name
OthersChecking(k, collectionName) ==
    {j \in Callers \ {k} : cc[j].pc = "check" /\ cc[j].name = collectionName}

\* createCollection or createHybridCollection is called and suspends at
\* await this.hasCollection(collectionName)
CallCreate(k, op, collectionName, dimension) ==
    /\ cc[k].pc \in {"idle", "done", "failed"}
    /\ cc' = [j \in Callers |->
                IF j = k
                THEN [pc |-> "check", op |-> op, name |-> collectionName,
                      dimension |-> dimension,
                      existed |-> hasCollection(db, collectionName),
                      overlap |-> OthersChecking(k, collectionName) # {},
                      checked |-> "no", sent |-> FALSE, sentExisting |-> FALSE,
                      thrown |-> NoError]
                ELSE IF j \in OthersChecking(k, collectionName)
                     THEN [cc[j] EXCEPT !.overlap = TRUE]
                     ELSE cc[j]]
    /\ UNCHANGED <<db, hybridCollections, observed, now, hs, st>>
    /\ UNCHANGED <<encVars, rr, tk>>

\* client.getCollections answers with the collections the backend has at that
\* moment: an existing collection is logged and the call returns, otherwise the
\* call goes on to the creation once the answer has reached it
HasCollectionAnswers(k) ==
    /\ cc[k].pc = "check"
    /\ cc' = [cc EXCEPT ![k].checked = "answered",
                        ![k].pc = IF hasCollection(db, cc[k].name) THEN "done"
                                  ELSE "create"]
    /\ UNCHANGED <<db, hybridCollections, observed, now, hs, st>>
    /\ UNCHANGED <<encVars, rr, tk>>

\* client.getCollections fails: hasCollection logs the error and returns false
HasCollectionFails(k) ==
    /\ cc[k].pc = "check"
    /\ cc' = [cc EXCEPT ![k].checked = "failed", ![k].pc = "create"]
    /\ UNCHANGED <<db, hybridCollections, observed, now, hs, st>>
    /\ UNCHANGED <<encVars, rr, tk>>

\* the creation request is sent with client.createCollection, which the call awaits
CreateSend(k) ==
    /\ cc[k].pc = "create"
    /\ cc' = [cc EXCEPT ![k].pc = "await", ![k].sent = TRUE,
                        ![k].sentExisting = hasCollection(db, cc[k].name)]
    /\ UNCHANGED <<db, hybridCollections, observed, now, hs, st>>
    /\ UNCHANGED <<encVars, rr, tk>>

\* client.createCollection succeeds: the backend has the collection;
\* createHybridCollection adds the name to hybridCollections; the call returns
CreateSucceeds(k) ==
    /\ cc[k].pc = "await"
    /\ ~hasCollection(db, cc[k].name)
    /\ db' = withCollection(db, createRequest(cc[k].op, cc[k].name, cc[k].dimension))
    /\ hybridCollections' = IF cc[k].op = "createHybridCollection"
                            THEN hybridCollections \cup {cc[k].name}
                            ELSE hybridCollections
    /\ cc' = [cc EXCEPT ![k].pc = "done"]
    /\ UNCHANGED <<observed, now, hs, st>>
    /\ UNCHANGED <<encVars, rr, tk>>

\* client.createCollection fails (the backend has the collection, or cannot be
\* reached): the error is logged and rethrown
CreateFails(k) ==
    /\ cc[k].pc = "await"
    /\ cc' = [cc EXCEPT ![k].pc = "failed", ![k].thrown = BackendError("createCollection")]
    /\ UNCHANGED <<db, hybridCollections, observed, now, hs, st>>
    /\ UNCHANGED <<encVars, rr, tk>>

CreateInit ==
    /\ rr = [pc |-> "idle"]
    /\ tk = [pc |-> "idle"]
    /\ cc = CcIdle
    /\ db \in CreateDbs
    /\ hybridCollections = {}
    /\ observed = {}
    /\ now = 0
    /\ hs = HsIdle
    /\ st = StIdle
    /\ enc = NewEncoder(DefaultConfig)
    /\ lastOp = [op |-> "new"]
    /\ origin = "new"
    /\ trip = NoTrip
    /\ fallback = "none"

CreateNext ==
    \/ \E k \in Callers, op \in {"createCollection", "createHybridCollection"},
          collectionName \in CreateNames, dimension \in Dimensions :
          CallCreate(k, op, collectionName, dimension)
    \/ \E k \in Callers : HasCollectionAnswers(k)
    \/ \E k \in Callers : HasCollectionFails(k)
    \/ \E k \in Callers : CreateSend(k)
    \/ \E k \in Callers : CreateSucceeds(k)
    \/ \E k \in Callers : CreateFails(k)

CreateSpec == CreateInit /\ [][CreateNext]_vars

(***************************************************************************)
(* FireworksReranker: rerank posts the documents to the /rerank endpoint   *)
(* and maps the answer back to the documents.                              *)
(***************************************************************************)
Min(a, b) == IF a < b THEN a ELSE b

\* the k-th document of a call: RerankDocument {id, content}
RerankDoc(k) == [id |-> <<"d">> \o toHex(k), content |-> <<"c">> \o toHex(k)]

\* the document lists of the calls
RerankDocuments == {[k \in 1..n |-> RerankDoc(k)] : n \in 0..MaxRerank}

\* the query texts of the calls
RerankQueries == {<<>>, <<"q">>}

\* relevance_score and threshold values
Scores == {-1, 0, 1}

\* RerankOptions {topN?, threshold?}: topN 0 is also no topN, a record
\* without threshold is a call without threshold
RerankerOptions ==
    {[topN |-> t] : t \in {0, 1}}
        \cup {[topN |-> t, threshold |-> h] : t \in {0, 1}, h \in Scores}

\* the answers of the endpoint to n documents and top_n: entries
\* {index, relevance_score} of different documents, at most top_n of them
ProviderAnswers(n, top_n) ==
    {data \in SeqsUpTo([index : 0..(n - 1), relevance_score : Scores], Min(top_n, n)) :
        \A i, j \in DOMAIN data : data[i].index = data[j].index => i = j}

\* the statuses and bodies of the answers that are not ok
ErrorStatuses == {404, 500}
ErrorBodies == {<<>>, <<"x">>}

\* a number as text
RECURSIVE toDecimal(_)
toDecimal(n) == IF n < 10 THEN <<HexDigits[n + 1]>>
                ELSE Append(toDecimal(n \div 10), HexDigits[(n % 10) + 1])

\* the message of an answer that is not ok, without the response text
apiErrorMessage_statusOnly(status, errorText) ==
    <<"Rerank API error: ">> \o toDecimal(status)

\* the message of an answer that is not ok
apiErrorMessage(status, errorText) ==
    <<"Rerank API error: ">> \o toDecimal(status) \o <<" - ">> \o errorText

\* the error the catch block throws
rerankError(errorMessage) ==
    [name |-> "Error", message |-> <<"Failed to rerank documents: ">> \o errorMessage]

\* the message of the error fetch rejects with when no answer arrives
fetchFailureMessage == <<"fetch failed">>

\* data.data.map(...): the entries with their documents
mapResults(documents, data) ==
    [i \in DOMAIN data |->
        [document |-> documents[data[i].index + 1],
         relevanceScore |-> data[i].relevance_score,
         index |-> data[i].index]]

\* threshold ? results.filter(r => r.relevanceScore >= threshold) : results
filterByThreshold(results, options) ==
    IF "threshold" \in DOMAIN options /\ options.threshold # 0
    THEN LET keep(r) == r.relevanceScore >= options.threshold
         IN SelectSeq(results, keep)
    ELSE results

RrIdle == [pc |-> "idle"]

\* rerank(query, documents, options) up to the request: the empty list returns
\* at once
CallRerank(query, documents, options) ==
    /\ rr.pc = "idle"
    /\ rr' = IF Len(documents) = 0
             THEN [pc |-> "done", query |-> query, documents |-> documents,
                   options |-> options, requests |-> <<>>, result |-> <<>>]
             ELSE [pc |-> "fetch", query |-> query, documents |-> documents,
                   options |-> options,
                   requests |-> <<[query |-> query,
                                   documents |-> [k \in DOMAIN documents |->
                                                     documents[k].content],
                                   top_n |-> OrElse(options.topN, Len(documents))]>>]
    /\ UNCHANGED <<encVars, dbVars, tk, cc>>

\* the endpoint answers ok with data: the results are mapped, filtered and returned
FetchAnswers ==
    /\ rr.pc = "fetch"
    /\ \E data \in ProviderAnswers(Len(rr.documents), rr.requests[1].top_n) :
          rr' = [pc |-> "done", query |-> rr.query,
                 documents |-> rr.documents, options |-> rr.options,
                 requests |-> rr.requests,
                 response |-> [ok |-> TRUE, status |-> 200, data |-> data],
                 result |-> filterByThreshold(mapResults(rr.documents, data), rr.options)]
    /\ UNCHANGED <<encVars, dbVars, tk, cc>>

\* the endpoint answers with a status that is not ok: the error thrown in the
\* try block is caught and a new error with its message is thrown
FetchRejected(status, errorText) ==
    /\ rr.pc = "fetch"
    /\ rr' = [pc |-> "failed", query |-> rr.query,
                 documents |-> rr.documents, options |-> rr.options,
              requests |-> rr.requests,
              response |-> [ok |-> FALSE, status |-> status, body |-> errorText],
              thrown |-> rerankError(apiErrorMessage(status, errorText))]
    /\ UNCHANGED <<encVars, dbVars, tk, cc>>

\* fetch rejects, no answer has arrived: a new error with its message is thrown
FetchFails ==
    /\ rr.pc = "fetch"
    /\ rr' = [pc |-> "failed", query |-> rr.query,
                 documents |-> rr.documents, options |-> rr.options,
              requests |-> rr.requests,
              failure |-> fetchFailureMessage,
              thrown |-> rerankError(fetchFailureMessage)]
    /\ UNCHANGED <<encVars, dbVars, tk, cc>>

\* the caller has taken the result or the error
RrSettled ==
    /\ rr.pc \in {"done", "failed"}
    /\ rr' = RrIdle
    /\ UNCHANGED <<encVars, dbVars, tk, cc>>

RerankInit ==
    /\ rr = [pc |-> "idle"]
    /\ tk = [pc |-> "idle"]
    /\ cc = CcIdle
    /\ db = StoreDb
    /\ hybridCollections = {}
    /\ observed = {}
    /\ now = 0
    /\ hs = [pc |-> "idle"]
    /\ st = [pc |-> "idle"]
    /\ enc = NewEncoder(DefaultConfig)
    /\ lastOp = [op |-> "new"]
    /\ origin = "new"
    /\ trip = NoTrip
    /\ fallback = "none"

RerankNext ==
    \/ \E query \in RerankQueries, documents \in RerankDocuments, options \in RerankerOptions :
          CallRerank(query, documents, options)
    \/ FetchAnswers
    \/ \E status \in ErrorStatuses, errorText \in ErrorBodies : FetchRejected(status, errorText)
    \/ FetchFails
    \/ RrSettled

RerankSpec == RerankInit /\ [][RerankNext]_vars

(***************************************************************************)
(* The tokenizer's callers: texts of words, written with a blank between   *)
(* the words, or as a call: the first word, "(", the other words with      *)
(* blanks between them, ")".                                               *)
(***************************************************************************)
WordGetUserIdV2 ==
    <<"g", "e", "t", "U", "s", "e", "r", "I", "D", "_", "v", "2">>
WordCalculateTotalPrice ==
    <<"c", "a", "l", "c", "u", "l", "a", "t", "e", "T", "o", "t", "a", "l", "P", "r", "i", "c", "e">>
WordItems ==
    <<"i", "t", "e", "m", "s">>
WordXmlHttpRequest ==
    <<"X", "M", "L", "H", "t", "t", "p", "R", "e", "q", "u", "e", "s", "t">>
WordIs ==
    <<"i", "s">>
WordThe ==
    <<"t", "h", "e">>
WordApi ==
    <<"A", "P", "I">>

Words == {WordGetUserIdV2, WordCalculateTotalPrice, WordItems, WordXmlHttpRequest, WordIs, WordThe, WordApi}

WordLists == SeqsUpTo(Words, MaxPieces) \ {<<>>}

RECURSIVE joinWords(_, _, _)
joinWords(words, k, first) ==
    IF k > Len(words) THEN <<>>
    ELSE (IF k = 1 THEN <<>> ELSE IF k = 2 THEN first ELSE <<" ">>)
            \o words[k] \o joinWords(words, k + 1, first)

\* the text of a list of words, as a sentence or as a call
sentenceOf(words) == joinWords(words, 1, <<" ">>)
callOf(words) == joinWords(words, 1, <<"(">>) \o <<")">>

\* the forms the callers write a list of words in: calls have one argument
FormsOf(words) == IF Len(words) <= 2 THEN {"sentence", "call"} ELSE {"sentence"}

TkIdle == [pc |-> "idle"]

\* tokenize(text) of an encoder in the code mode, from call to return
CallTokenize(words, form) ==
    /\ tk.pc = "idle"
    /\ LET text == IF form = "call" THEN callOf(words) ELSE sentenceOf(words)
       IN tk' = [pc |-> "done", words |-> words, form |-> form, text |-> text,
                 tokens |-> tokenizeCode(text)]
    /\ UNCHANGED <<encVars, dbVars, rr, cc>>

\* the caller has the tokens
TkSettled ==
    /\ tk.pc = "done"
    /\ tk' = TkIdle
    /\ UNCHANGED <<encVars, dbVars, rr, cc>>

TokInit ==
    /\ rr = [pc |-> "idle"]
    /\ tk = [pc |-> "idle"]
    /\ cc = CcIdle
    /\ db = StoreDb
    /\ hybridCollections = {}
    /\ observed = {}
    /\ now = 0
    /\ hs = [pc |-> "idle"]
    /\ st = [pc |-> "idle"]
    /\ enc = NewEncoder(DefaultConfig)
    /\ lastOp = [op |-> "new"]
    /\ origin = "new"
    /\ trip = NoTrip
    /\ fallback = "none"

TokNext ==
    \/ \E words \in WordLists : \E form \in FormsOf(words) : CallTokenize(words, form)
    \/ TkSettled

TokSpec == TokInit /\ [][TokNext]_vars

(***************************************************************************)
(* Properties of the encoder.                                              *)
(***************************************************************************)
\* the terms of the vocabulary
VocabularyTerms == Range(enc.vocabulary.keys)

\* the two-document corpus "red blue red", "blue green"
RedBlueGreenCorpus == <<TextRedBlueRed, TextBlueGreen>>

BuiltRedBlueGreenWithDefaults ==
    /\ lastOp.op = "buildVocabulary"
    /\ lastOp.arg = RedBlueGreenCorpus
    /\ enc.config = DefaultConfig

\* C5, as stated: after buildVocabulary on the corpus "red blue red", "blue green"
\* with the default parameters the vocabulary is exactly {red, blue, green}.
C5_VocabularyRedBlueGreen ==
    BuiltRedBlueGreenWithDefaults => VocabularyTerms = {"red", "blue", "green"}

\* C5, amended: after buildVocabulary on that corpus with the default parameters
\* the vocabulary is exactly {red, green}; blue, which is in both documents, has
\* df = 2 > maxDf = floor(0.85 * 2) = 1 and is left out.
C5_VocabularyRedGreen ==
    BuiltRedBlueGreenWithDefaults =>
        /\ VocabularyTerms = {"red", "green"}
        /\ ~MapHas(enc.vocabulary, "blue")

C5_Witness ==
    /\ BuiltRedBlueGreenWithDefaults
    /\ enc.isInitialized
    /\ enc.totalDocuments = 2

\* C6: after buildVocabulary(D) with N = |D| documents, a term that occurs in D is
\* in the vocabulary iff minDf <= df(term) <= floor(maxDfRatio * N), with df the
\* number of documents that hold the term; the terms that pass are numbered
\* 0..V-1 without gaps and each has a DF and an IDF entry.
C6_VocabularyFilter ==
    lastOp.op = "buildVocabulary" =>
        LET D == lastOp.arg
            N == Len(D)
            occurring == UNION {Range(tokenize(enc.config, D[i])) : i \in DOMAIN D}
            df(term) == Cardinality({i \in DOMAIN D :
                                        term \in Range(tokenize(enc.config, D[i]))})
            V == Cardinality(VocabularyTerms)
        IN /\ VocabularyTerms \subseteq occurring
           /\ \A term \in occurring :
                 term \in VocabularyTerms <=>
                    (enc.config.minDf <= df(term)
                     /\ df(term) <= (enc.config.maxDfRatio * N) \div 100)
           /\ Len(enc.vocabulary.keys) = V
           /\ {MapGet(enc.vocabulary, term) : term \in VocabularyTerms} = 0..(V - 1)
           /\ \A term \in VocabularyTerms :
                 /\ MapHas(enc.documentFrequency, term)
                 /\ MapGet(enc.documentFrequency, term) = df(term)
                 /\ MapHas(enc.idfCache, term)

\* a build in which a term passes, a term is filtered, and a term occurs twice in
\* one document
C6_Witness ==
    /\ lastOp.op = "buildVocabulary"
    /\ Len(lastOp.arg) = 2
    /\ lastOp.arg[1] = TextRedBlueRed
    /\ MapHas(enc.vocabulary, "red")
    /\ MapGet(enc.documentFrequency, "red") = 1
    /\ ~MapHas(enc.vocabulary, "blue")

\* C7: in an encoder whose tables buildVocabulary made, embed / embedQuery return
\* exactly one entry per distinct in-vocabulary token of the text, at the token's
\* vocabulary index and with a value > 0, and nothing else: the two lists have the
\* same length, no index is repeated, every index is in [0, vocabulary size).
C7_EmbedEntries ==
    (origin = "build" /\ lastOp.op \in {"embed", "embedQuery"}) =>
        LET out == lastOp.result
            tokens == tokenize(enc.config, lastOp.arg)
            inVocabulary == {t \in Range(tokens) : MapHas(enc.vocabulary, t)}
        IN /\ Len(out.indices) = Len(out.values)
           /\ Len(out.indices) = Cardinality(inVocabulary)
           /\ Range(out.indices) = {MapGet(enc.vocabulary, t) : t \in inVocabulary}
           /\ \A i \in DOMAIN out.values : scorePositive(out.values[i])
           /\ \A i \in DOMAIN out.indices :
                 out.indices[i] >= 0 /\ out.indices[i] < MapSize(enc.vocabulary)

\* embed of "red blue red" where red is in the vocabulary and blue is not: one
\* entry for the two occurrences of red
C7_Witness ==
    /\ origin = "build"
    /\ lastOp.op = "embed"
    /\ lastOp.arg = TextRedBlueRed
    /\ Len(lastOp.result.indices) = 1
    /\ lastOp.result.values[1].tf = 2

\* C8: for an encoder whose tables buildVocabulary made, after s = exportState();
\* clear(); importState(s) the encoder is initialized, embed and embedQuery return
\* for every text what they returned before the sequence, and exportState
\* returns a value equal to s.
C8_RoundTrip ==
    (trip.phase = 3 /\ trip.preOrigin = "build") =>
        /\ enc.isInitialized
        /\ \A x \in Texts :
              /\ embed(enc, x).out = embed(trip.pre, x).out
              /\ embedQuery(enc, x).out = embedQuery(trip.pre, x).out
        /\ lastOp.op \in {"embed", "embedQuery"} =>
              lastOp.result = embed(trip.pre, lastOp.arg).out
        /\ exportState(enc) = trip.s

\* the round trip of an encoder with a vocabulary, followed by an embed that
\* returns an entry
C8_Witness ==
    /\ trip.phase = 3
    /\ trip.preOrigin = "build"
    /\ MapSize(trip.pre.vocabulary) > 0
    /\ lastOp.op = "embed"
    /\ Len(lastOp.result.indices) > 0

\* what a call does to the initialized flag
C9_Step ==
    /\ lastOp'.op = "clear" => ~enc'.isInitialized
    /\ lastOp'.op \in {"buildVocabulary", "importState", "embed", "embedQuery"} =>
          enc'.isInitialized
    /\ lastOp'.op \in {"exportState", "updateConfig"} =>
          enc'.isInitialized = enc.isInitialized

\* C9: the initialized flag is false at creation and after every clear; it is true
\* after buildVocabulary (also on an empty corpus), importState, and embed /
\* embedQuery (which initialize an uninitialized encoder from their text);
\* exportState and updateConfig leave it as it is, so only clear makes it false.
C9_Lifecycle == ~enc.isInitialized /\ [][C9_Step]_vars

\* an embed that found the encoder uninitialized and left it initialized
C9_Witness ==
    /\ lastOp.op = "embed"
    /\ ~lastOp.wasInitialized
    /\ enc.isInitialized

\* C10: buildVocabulary on an empty corpus, in any encoder state, leaves the encoder
\* initialized with an empty vocabulary, empty DF and IDF tables,
\* totalDocuments = 0 and avgDocumentLength = 0, as exportState shows.
C10_EmptyCorpus ==
    (lastOp.op = "buildVocabulary" /\ lastOp.arg = <<>>) =>
        LET s == exportState(enc)
        IN /\ enc.isInitialized
           /\ s.vocabulary = <<>>
           /\ s.documentFrequency = <<>>
           /\ s.idfCache = <<>>
           /\ s.totalDocuments = 0
           /\ s.avgDocumentLength = <<0, 1>>

(***************************************************************************)
(* Properties of hybridSearch and search.                                  *)
(***************************************************************************)
\* the 0-based positions of docId in an answer
RanksIn(answer, docId) == {i - 1 : i \in {j \in DOMAIN answer : docIdOf(answer[j]) = docId}}

\* the sum of 1 / (k + rank + 1) over the searches from position j on that hold docId
RECURSIVE SumOverChannels(_, _, _, _)
SumOverChannels(searches, docId, k, j) ==
    IF j > Len(searches) THEN <<0, 1>>
    ELSE LET ranks == RanksIn(searches[j].answer, docId)
             rest == SumOverChannels(searches, docId, k, j + 1)
         IN IF ranks = {} THEN rest
            ELSE RatAdd(<<1, k + (CHOOSE r \in ranks : TRUE) + 1>>, rest)

\* C1: a hybridSearch with strategy RRF returns every document with the score
\* that is the sum, over the queried channels holding the document, of
\* 1 / (k + rank + 1), rank the 0-based position of the document in that
\* channel's answer and k the parameter, 60 when none is given.
C1_RrfByChannelRank ==
    (hs.pc = "done" /\ hs.op = "hybridSearch" /\ strategyOf(hs.rerank) = "rrf") =>
        \A i \in DOMAIN hs.result :
            hs.result[i].score =
                SumOverChannels(hs.searches, hs.result[i].id, OrElse(hs.rerank.k, 60), 1)

\* the collection of the call in progress has the named vectors dense and sparse
CollectionIsHybrid == db[hs.collectionName].vectors = "named"

\* the vector the stated channel selection gives a request
StatedVectorName(request) ==
    IF CollectionIsHybrid
       /\ (isSparseVector(request.data) \/ isSparseField(request.anns_field))
    THEN "sparse"
    ELSE IF CollectionIsHybrid /\ request.data.type = "array" THEN "dense"
    ELSE "unnamed"

\* C4: every request of hybridSearch that is searched is searched once, on the
\* named vector sparse only when the collection is hybrid and the request is
\* sparse by data shape or field name, on dense when the collection is hybrid
\* and the data is dense, and on the unnamed vector otherwise; search() uses
\* dense on a hybrid collection and the unnamed vector on any other. The calls
\* are those whose lookups of the collection's mode were all answered.
C4_ChannelSelection ==
    /\ (hs.pc # "idle" /\ hs.op = "hybridSearch" /\ "getCollection" \notin hs.errors) =>
          /\ \A j \in DOMAIN hs.searches :
                hs.searches[j].vector = StatedVectorName(hs.requests[hs.searches[j].request])
          /\ \A i, j \in DOMAIN hs.searches :
                hs.searches[i].request = hs.searches[j].request => i = j
    /\ (hs.pc # "idle" /\ hs.op = "search" /\ "getCollection" \notin hs.errors) =>
          hs.vector = (IF CollectionIsHybrid THEN "dense" ELSE "unnamed")

(***************************************************************************)
(* Properties of the id mapping, insert and delete.                        *)
(***************************************************************************)
\* the pairs of id string and point id the call in progress has mapped
MappedByCall ==
    IF st.pc = "idle" THEN {}
    ELSE {<<st.ids[k], IF st.op = "delete" THEN st.points[k] ELSE st.points[k].id>> :
             k \in DOMAIN st.points}

\* the pairs of id string and point id that earlier inserts have written
MappedByInserts ==
    UNION {{<<q.payloadId, q.id>> : q \in db[c].points} : c \in DOMAIN db}

\* C2: the point id is a function of the id string alone: any two calls of the
\* mapping with one id string, in one operation or in two, at any two times,
\* return the same point id.
C2_IdMappingPure ==
    \A x, y \in MappedByCall \cup MappedByInserts : x[1] = y[1] => x[2] = y[2]

\* C3: when a delete of ids has returned, after the inserts before it have
\* returned, the collection holds no point whose payload id is one of the ids.
C3_DeleteRemovesInserted ==
    (st.pc = "done" /\ st.op = "delete") =>
        \A k \in DOMAIN st.ids :
            \A q \in db[st.collectionName].points : q.payloadId # st.ids[k]

(***************************************************************************)
(* Properties of the reranker.                                             *)
(***************************************************************************)
\* the text contains the part as a piece
Carries(text, part) ==
    \E i \in 1..(Len(text) - Len(part) + 1) : SubSeq(text, i, i + Len(part) - 1) = part

\* a rerank call that sent its request has failed
RerankFailed == rr.pc = "failed" /\ rr.requests # <<>>

\* the call fails whenever the request got no ok answer, and returns no list then
FailsWithoutList ==
    /\ (rr.pc = "done" /\ rr.requests # <<>>) => rr.response.ok
    /\ RerankFailed => "result" \notin DOMAIN rr /\ rr.thrown.name = "Error"

\* C19 as stated: whenever the endpoint answers not ok or the request fails,
\* rerank fails with one error that carries the HTTP status and the response
\* body, and returns no list.
C19_ErrorCarriesStatusAndBody ==
    /\ FailsWithoutList
    /\ RerankFailed =>
          /\ "response" \in DOMAIN rr
          /\ Carries(rr.thrown.message, toDecimal(rr.response.status))
          /\ Carries(rr.thrown.message, rr.response.body)

\* C19: whenever the endpoint answers not ok or the request fails, rerank
\* fails with one error and returns no list; after an answer that is not ok the
\* error carries the HTTP status and the response body, after a request that got
\* no answer it carries the message of that failure.
C19_ErrorCarriesFailure ==
    /\ FailsWithoutList
    /\ RerankFailed =>
          IF "response" \in DOMAIN rr
          THEN /\ ~rr.response.ok
               /\ Carries(rr.thrown.message, toDecimal(rr.response.status))
               /\ Carries(rr.thrown.message, rr.response.body)
          ELSE Carries(rr.thrown.message, rr.failure)

\* a rerank call has failed on the answer 500 with a body
C19_Witness ==
    /\ RerankFailed
    /\ "response" \in DOMAIN rr
    /\ rr.response.status = 500 /\ rr.response.body = <<"x">>

\* the entries of the answer with a score of t or more, in the answer's order
AtLeast(data, t) ==
    LET keep(e) == e.relevance_score >= t
    IN SelectSeq(data, keep)

\* C20: a rerank call with a threshold t, whatever number t is, returns the
\* entries of the answer that score t or more, all of them, in the answer's
\* order, and no entry that scores less.
C20_ThresholdFilters ==
    (rr.pc = "done" /\ rr.requests # <<>> /\ "threshold" \in DOMAIN rr.options) =>
        LET kept == AtLeast(rr.response.data, rr.options.threshold)
        IN /\ Len(rr.result) = Len(kept)
           /\ \A i \in DOMAIN kept :
                 /\ rr.result[i].index = kept[i].index
                 /\ rr.result[i].relevanceScore = kept[i].relevance_score

\* C21: a rerank call with an empty query text and documents fails with
\* InvalidArgument and sends no request to the endpoint.
C21_EmptyQueryRejected ==
    (rr.pc # "idle" /\ rr.query = <<>> /\ Len(rr.documents) > 0) =>
        /\ rr.requests = <<>>
        /\ rr.pc = "failed"
        /\ rr.thrown.name = "InvalidArgument"

(***************************************************************************)
(* Properties of the filter expressions.                                   *)
(***************************************************************************)
\* the filters the call in progress has parsed for its backend requests
FiltersOfCall ==
    IF hs.pc = "idle" THEN {}
    ELSE IF hs.op = "hybridSearch" THEN {hs.searches[j].filter : j \in DOMAIN hs.searches}
    ELSE {hs.filter}

\* the expressions of the callers that have the text of the call in progress
ExprsOfCall ==
    IF hs.pc = "idle" THEN {}
    ELSE {e \in FilterExprs : RenderTable[e] = hs.filterExpr}

\* an expression of one of the three forms
Recognized(e) == e.op \in {"==", "!="} \/ (e.op = "in" /\ e.values # <<>>)

\* the filter of an expression's own form
StatedFilter(e) ==
    [kind |-> CASE e.op = "in" -> "should"
                [] e.op = "==" -> "must"
                [] e.op = "!=" -> "must_not",
     conditions |-> [k \in DOMAIN e.values |-> condition(e.field, e.values[k])]]

\* C22: the filter of an expression is that of the expression's own form: f in
\* [v1, ..., vn] gives the should of n matches of f, f == v the must of one, f !=
\* v the must_not of one, with the values out of their quotes, also when a value
\* in quotes holds the text of an operator.
C22_FilterOfOwnForm ==
    \A e \in ExprsOfCall : Recognized(e) =>
        \A filter \in FiltersOfCall : filter = StatedFilter(e)

\* C23: when the filter expression of a call is none of the three forms, the
\* call logs the warning, sends its backend requests without a filter, and
\* fails only with the error of a backend request.
C23_UnrecognizedIsNoFilter ==
    \A e \in ExprsOfCall : ~Recognized(e) =>
        /\ \A filter \in FiltersOfCall : filter = NoFilter
        /\ hs.op \in {"search", "query"} => hs.warnings = 1
        /\ hs.op = "hybridSearch" => hs.warnings >= Len(hs.searches)
        /\ hs.pc = "failed" => hs.thrown \in hs.errors

(***************************************************************************)
(* Properties of the tokenizer.                                            *)
(***************************************************************************)
\* the tokens stated for a word
StatedTokens(word) ==
    CASE word = WordGetUserIdV2 -> <<"get", "user", "id", "v2">>
      [] word = WordCalculateTotalPrice -> <<"calculate", "total", "price">>
      [] word = WordItems -> <<"items">>
      [] word = WordXmlHttpRequest -> <<"xml", "http", "request">>
      [] word = WordIs -> <<>>
      [] word = WordThe -> <<>>
      [] word = WordApi -> <<"api">>

RECURSIVE StatedTokensOf(_, _)
StatedTokensOf(words, k) ==
    IF k > Len(words) THEN <<>>
    ELSE StatedTokens(words[k]) \o StatedTokensOf(words, k + 1)

\* C24: tokenize in the code mode returns, in the order of the text, the
\* parts of the words in small letters, without the stop tokens and the
\* tokens of one character: getUserID_v2 gives get, user, id, v2,
\* calculateTotalPrice(items) gives calculate, total, price, items, and
\* XMLHttpRequest is the API gives xml, http, request, api.
C24_CodeTokens ==
    tk.pc = "done" =>
        /\ tk.tokens = StatedTokensOf(tk.words, 1)
        /\ \A i \in DOMAIN tk.tokens : tk.tokens[i] \notin stopTokens

\* the third example has been tokenized
C24_Witness ==
    /\ tk.pc = "done"
    /\ tk.text = sentenceOf(<<WordXmlHttpRequest, WordIs, WordThe, WordApi>>)
    /\ tk.tokens = <<"xml", "http", "request", "api">>

(***************************************************************************)
(* Properties of the length ratio.                                         *)
(***************************************************************************)
\* max(avg_document_length, 1)
StatedDivisor(avg) == IF RatLess(avg, <<1, 1>>) THEN <<1, 1>> ELSE avg

\* C25: every value embed emits is computed with the length ratio doc_len /
\* max(avg_document_length, 1): the divisor is 1 whenever the average length is
\* below 1, also when it is above 0.
C25_LengthRatioDivisor ==
    lastOp.op \in {"embed", "embedQuery"} =>
        \A i \in DOMAIN lastOp.result.values :
            /\ lastOp.result.values[i].avgDivisor = StatedDivisor(enc.avgDocumentLength)
            /\ lastOp.result.values[i].docLength = Len(tokenize(enc.config, lastOp.arg))

(***************************************************************************)
(* Properties of the requests named sparse.                                *)
(***************************************************************************)
\* C26: in hybridSearch on a hybrid collection a request whose anns_field holds
\* "sparse" and whose data is an array, not an {indices, values} object, is
\* searched exactly once, on the vector sparse: it is not dropped.  The calls
\* are those whose lookups of the collection's mode were all answered.
C26_SparseFieldSearched ==
    (hs.pc # "idle" /\ hs.op = "hybridSearch" /\ CollectionIsHybrid
        /\ "getCollection" \notin hs.errors) =>
        \A r \in DOMAIN hs.requests :
            (isSparseField(hs.requests[r].anns_field) /\ hs.requests[r].data.type = "array")
                => Cardinality({j \in DOMAIN hs.searches :
                                   /\ hs.searches[j].request = r
                                   /\ hs.searches[j].vector = "sparse"}) = 1

(***************************************************************************)
(* Properties of the fallback build of embed                               *)
(***************************************************************************)
\* the last call was embed or embedQuery and returned the empty sparse vector
\* from an empty vocabulary
EmbedYieldsNothing ==
    lastOp.op \in {"embed", "embedQuery"} =>
        /\ MapSize(enc.vocabulary) = 0
        /\ lastOp.result = EmptySparse

\* C29 as stated: embed on an uninitialized encoder with maxDfRatio < 1 builds an
\* empty vocabulary and returns the empty vector for every text, and so does every
\* later embed / embedQuery until buildVocabulary or importState is called.
C29_DegradedUntilRebuilt ==
    fallback \in {"degraded", "cleared"} => EmbedYieldsNothing

\* C29, amended: ... until buildVocabulary, importState or clear is called.
C29_DegradedUntilRebuiltOrCleared ==
    fallback = "degraded" => EmbedYieldsNothing

\* a later embedQuery of a text with tokens on an encoder in degraded mode
C29_Witness ==
    /\ fallback = "degraded"
    /\ lastOp.op = "embedQuery"
    /\ lastOp.wasInitialized
    /\ lastOp.arg = TextRedBlueRed
    /\ lastOp.result = EmptySparse

(***************************************************************************)
(* Properties of the point ids of different documents                      *)
(***************************************************************************)
\* the point ids a running call has computed, each with the document id it is for
MappedIds ==
    IF st.pc = "idle" THEN {}
    ELSE {[id |-> IF st.op = "delete" THEN st.points[k] ELSE st.points[k].id,
           payloadId |-> st.ids[k]] : k \in DOMAIN st.points}

\* C27: two documents with different ids never share a point id of the backend:
\* neither two documents of one call, nor a document of an insert or a delete
\* and a stored document with another id (so an insert of X never overwrites Y
\* and delete([X]) leaves Y).  This is for all id strings, "Aa" and "BB" included.
C27_DistinctIdsDistinctPoints ==
    /\ \A p, q \in MappedIds : p.payloadId # q.payloadId => p.id # q.id
    /\ \A p \in MappedIds : \A c \in DOMAIN db : \A q \in db[c].points :
           p.payloadId # q.payloadId => p.id # q.id

(***************************************************************************)
(* Properties of createCollection and createHybridCollection               *)
(***************************************************************************)
\* the calls that have returned without error
Returned == {k \in Callers : cc[k].pc = "done"}

\* C28: after createHybridCollection(name, dim) has returned without error the
\* collection name is hybrid in the backend (named vectors dense and sparse) and
\* the dispatcher, when its lookup is answered, takes it for hybrid: also when a
\* collection of that name existed before the call, whatever its vectors.
C28_HybridAfterCreate ==
    \A k \in Returned :
        cc[k].op = "createHybridCollection" =>
            /\ hasCollection(db, cc[k].name)
            /\ db[cc[k].name].vectors = "named"
            /\ isHybridCollection(hybridCollections, db, cc[k].name, TRUE).answer

\* the calls whose existence check the backend answered
Answered == {k \in Callers : cc[k].pc # "idle" /\ cc[k].checked = "answered"}

\* C30, for the calls whose existence check was answered: no creation request is
\* sent for a name the backend has; a call on an existing name returns normally
\* and sends none; and of two calls for the same new name that were both
\* suspended at their existence check, exactly one has sent a creation request
\* and both have returned normally once both are through.
C30_NoCreateOfExisting ==
    /\ \A k \in Answered : ~cc[k].sentExisting
    /\ \A k \in Answered : cc[k].existed => (~cc[k].sent /\ cc[k].pc = "done")
    /\ \A j, k \in Answered :
          (/\ j # k /\ cc[j].name = cc[k].name
           /\ cc[j].overlap /\ cc[k].overlap
           /\ ~cc[j].existed /\ ~cc[k].existed
           /\ cc[j].pc \in {"done", "failed"} /\ cc[k].pc \in {"done", "failed"})
          => /\ cc[j].sent # cc[k].sent
             /\ cc[j].pc = "done" /\ cc[k].pc = "done"

(***************************************************************************)
(* Properties of the batched insert.                                       *)
(***************************************************************************)
\* the index of the batch that holds the document at position k of the input
BatchOf(k) == (k - 1) \div batchSize

\* the documents of the call that the collection holds a point of
Committed ==
    {k \in DOMAIN st.ids :
        \E q \in db[st.collectionName].points : q.payloadId = st.ids[k]}

\* C16: when the upsert of batch j fails, the points of the batches 0 to j-1
\* are in the collection, those of batch j and of the later batches are not,
\* no later batch was sent, the call fails, and the error given to the caller
\* identifies j as the failing batch.
C16_FailingBatchIdentified ==
    (st.pc = "failed" /\ st.op # "delete") =>
        LET j == st.i \div batchSize
        IN /\ Committed = {k \in DOMAIN st.ids : BatchOf(k) < j}
           /\ Len(st.sent) = j + 1
           /\ "batch" \in DOMAIN st.thrown
           /\ st.thrown.batch = j

Ceil(n, d) == (n + d - 1) \div d

\* C17: an insert of n documents issues ceil(n / 100) upsert requests, each of
\* at most 100 points, the requests carry the points in input order, a request
\* is sent only when the one before it has completed, and no request is sent
\* for n = 0.
C17_BatchesOfHundred ==
    (st.pc # "idle" /\ st.op # "delete") =>
        LET n == Len(st.ids)
        IN /\ Len(st.sent) <= Ceil(n, batchSize)
           /\ st.pc = "done" => Len(st.sent) = Ceil(n, batchSize)
           /\ st.sent # <<>> => Len(st.points) = n
           /\ \A b \in DOMAIN st.sent :
                 /\ Len(st.sent[b]) <= batchSize
                 /\ Len(st.sent[b]) = Min(batchSize, n - (b - 1) * batchSize)
                 /\ \A k \in DOMAIN st.sent[b] :
                       st.sent[b][k] = st.points[(b - 1) * batchSize + k]
           /\ Len(st.sent) - (st.i \div batchSize) \in {0, 1}
           /\ st.pending => Len(st.sent) - (st.i \div batchSize) = 1

\* an insert of more than 100 documents has returned after two requests
C17_Witness ==
    /\ st.pc = "done" /\ st.op # "delete"
    /\ Len(st.ids) = MaxMany
    /\ Len(st.sent) = 2

(***************************************************************************)
(* Properties of the mode cache.                                           *)
(***************************************************************************)
CountCalls(calls, name) == Cardinality({i \in DOMAIN calls : calls[i] = name})

\* the number of getCollection calls the step makes
IntrospectionsInStep ==
    IF hs'.pc = "idle" THEN 0
    ELSE CountCalls(hs'.calls, "getCollection")
         - (IF hs.pc = "loop" THEN CountCalls(hs.calls, "getCollection") ELSE 0)

\* the step is a search(), or a turn of hybridSearch for a request that is not text
ConsultsModeInStep ==
    /\ hs'.pc # "idle"
    /\ \/ hs.pc = "idle" /\ hs'.op = "search"
       \/ /\ hs.pc = "loop"
          /\ Len(hs'.requests) > Len(hs.requests)
          /\ hs'.requests[Len(hs'.requests)].data.type # "string"

C11_Step ==
    /\ hybridCollections \subseteq hybridCollections'
    /\ hs'.pc = "idle" => hybridCollections' = hybridCollections
    /\ hs'.pc # "idle" =>
          LET name == hs'.collectionName
          IN /\ name \in hybridCollections =>
                   IntrospectionsInStep = 0 /\ hybridCollections' = hybridCollections
             /\ (name \notin hybridCollections /\ ConsultsModeInStep) =>
                   IntrospectionsInStep = 1
             /\ ~ConsultsModeInStep => IntrospectionsInStep = 0
             /\ hybridCollections' =
                   IF /\ IntrospectionsInStep = 1
                      /\ name \in observed'
                      /\ db[name].vectors = "named"
                   THEN hybridCollections \cup {name}
                   ELSE hybridCollections

C18_BackendFailureReachesCaller ==
    /\ hs.pc = "done" => hs.errors = {}
    /\ hs.pc = "failed" => hs.thrown \in hs.errors

(***************************************************************************)
(* Properties of the skipped requests.                                     *)
(***************************************************************************)
\* the step is the turn of hybridSearch for one more request
TurnInStep == hs.pc = "loop" /\ hs'.pc # "idle" /\ Len(hs'.requests) = Len(hs.requests) + 1

\* the request of the turn
TurnRequest == hs'.requests[Len(hs'.requests)]

isEmptySparse(data) == isSparseVector(data) /\ Len(data.indices) = 0

\* C12 as stated: the turn for a request whose data is a sparse vector without
\* indices, or text, makes no backend call at all, neither search nor
\* getCollection; a hybridSearch whose only request is such a sparse vector
\* returns the empty list.
C12_SkippedWithoutBackendContact ==
    /\ [][(TurnInStep /\ (isEmptySparse(TurnRequest.data) \/ TurnRequest.data.type = "string"))
            => hs'.calls = hs.calls]_vars
    /\ [](hs.pc = "done" /\ hs.op = "hybridSearch" /\ Len(hs.requests) = 1
            /\ isEmptySparse(hs.requests[1].data) => hs.result = <<>>)

C12_Step ==
    /\ (TurnInStep /\ TurnRequest.data.type = "string") =>
          /\ hs'.calls = hs.calls
          /\ hs'.searches = hs.searches
          /\ hs'.allResults = hs.allResults
          /\ hs'.pc = "loop"
    /\ (TurnInStep /\ isEmptySparse(TurnRequest.data)) =>
          /\ hs'.calls = hs.calls \o (IF hs.collectionName \in hybridCollections THEN <<>>
                                      ELSE <<"getCollection">>)
          /\ hs'.searches = hs.searches
          /\ hs'.allResults = hs.allResults
          /\ hs'.pc = "loop"

\* C12, amended: the turn for a request whose data is a sparse vector without
\* indices sends no search and adds no result, but it looks the collection mode
\* up (one getCollection) unless the name is in the cache; the turn for a text
\* request makes no backend call; a hybridSearch whose only request is such a
\* sparse vector returns the empty list.
C12_SkippedWithoutSearch ==
    /\ [][C12_Step]_vars
    /\ [](hs.pc = "done" /\ hs.op = "hybridSearch" /\ Len(hs.requests) = 1
            /\ isEmptySparse(hs.requests[1].data) => hs.result = <<>> /\ hs.searches = <<>>)

\* a hybridSearch whose only request was an empty sparse vector has returned the
\* empty list after one getCollection
C12_Witness ==
    /\ hs.pc = "done" /\ hs.op = "hybridSearch"
    /\ Len(hs.requests) = 1 /\ isEmptySparse(hs.requests[1].data)
    /\ hs.calls = <<"getCollection">>
    /\ hs.result = <<>>

(***************************************************************************)
(* Properties of the weighted fusion.                                      *)
(***************************************************************************)
\* the searches of the call, in the order they were sent, that returned docId
ChannelsOf(docId) == {j \in DOMAIN hs.searches : RanksIn(hs.searches[j].answer, docId) # {}}

\* the raw score docId has in the answer of the j-th search
RawScore(j, docId) ==
    LET answer == hs.searches[j].answer
    IN answer[CHOOSE i \in DOMAIN answer : docIdOf(answer[i]) = docId].score

\* the weight stated for the j-th of n queried channels
StatedWeight(weights, j, n) == IF j \in DOMAIN weights THEN weights[j] ELSE <<1, n>>

\* the sum of weight times raw score over the channels from j on that returned docId
RECURSIVE StatedWeightedSum(_, _, _)
StatedWeightedSum(weights, docId, j) ==
    IF j > Len(hs.searches) THEN <<0, 1>>
    ELSE LET rest == StatedWeightedSum(weights, docId, j + 1)
         IN IF j \in ChannelsOf(docId)
            THEN RatAdd(RatMul(<<RawScore(j, docId), 1>>,
                               StatedWeight(weights, j, Len(hs.searches))), rest)
            ELSE rest

WeightedDone == hs.pc = "done" /\ hs.op = "hybridSearch" /\ strategyOf(hs.rerank) = "weighted"

\* C13: in the weighted fusion the i-th of the n queried channels has the weight
\* supplied for it, 0 included, and the weight 1/n when none is supplied for it
\* or no weights are supplied at all.  Stated for the documents that every
\* queried channel returned, whose i-th raw score is the i-th channel's.
C13_EffectiveWeights ==
    WeightedDone =>
        \A i \in DOMAIN hs.result :
            ChannelsOf(hs.result[i].id) = DOMAIN hs.searches =>
                hs.result[i].score = StatedWeightedSum(hs.rerank.weights, hs.result[i].id, 1)

\* C14: in the weighted fusion the raw score of the i-th queried channel is
\* multiplied by the i-th weight, also for a document that an earlier channel did
\* not return.  Stated for supplied weights that cover every queried channel and
\* are not 0, whose effective values are not in question.
C14_ChannelAlignment ==
    (/\ WeightedDone
     /\ Len(hs.rerank.weights) >= Len(hs.searches)
     /\ \A j \in DOMAIN hs.rerank.weights : ~RatIsZero(hs.rerank.weights[j])) =>
        \A i \in DOMAIN hs.result :
            hs.result[i].score = StatedWeightedSum(hs.rerank.weights, hs.result[i].id, 1)

(***************************************************************************)
(* Properties of the returned list.                                        *)
(***************************************************************************)
\* the document ids of the answers of the call
FusedDocs == {d \in {docIdOf(q) : q \in Points} : ChannelsOf(d) # {}}

\* where docId was seen first: the search, then the position in its answer
FirstSeen(docId) ==
    LET j == CHOOSE c \in ChannelsOf(docId) : \A c2 \in ChannelsOf(docId) : c <= c2
    IN <<j, CHOOSE r \in RanksIn(hs.searches[j].answer, docId) : TRUE>>

SeenBefore(d, e) ==
    \/ FirstSeen(d)[1] < FirstSeen(e)[1]
    \/ FirstSeen(d)[1] = FirstSeen(e)[1] /\ FirstSeen(d)[2] < FirstSeen(e)[2]

\* the fused score of a document of the call
FusedOf(docId) == fusedScore(MapGet(hs.allResults, docId), hs.rerank)

\* d comes before e in the list sorted by fused score, ties in first-seen order
RanksBefore(d, e) ==
    \/ RatLess(FusedOf(e), FusedOf(d))
    \/ FusedOf(e) = FusedOf(d) /\ SeenBefore(d, e)

\* C15: whatever the strategy, the list hybridSearch returns holds each document
\* id once, is sorted by fused score, best first, documents of equal score in
\* the order they were first seen in the answers, and is the first
\* min(limit, number of fused documents) entries of that order.
C15_SortedAndTruncated ==
    (hs.pc = "done" /\ hs.op = "hybridSearch") =>
        /\ Len(hs.result) = (IF hs.limit < Cardinality(FusedDocs) THEN hs.limit
                             ELSE Cardinality(FusedDocs))
        /\ \A i \in DOMAIN hs.result :
              /\ hs.result[i].id \in FusedDocs
              /\ hs.result[i].score = FusedOf(hs.result[i].id)
        /\ \A i, j \in DOMAIN hs.result :
              i < j => hs.result[i].id # hs.result[j].id
                       /\ RanksBefore(hs.result[i].id, hs.result[j].id)
        /\ \A d \in FusedDocs :
              (\A i \in DOMAIN hs.result : hs.result[i].id # d) =>
                  \A i \in DOMAIN hs.result : RanksBefore(hs.result[i].id, d)

\* two documents of equal fused score, the one seen second seen first by no
\* channel, and a limit that cuts the list to the one seen first
C15_Witness ==
    /\ hs.pc = "done" /\ hs.op = "hybridSearch"
    /\ hs.limit = 1
    /\ Len(hs.searches) = 2
    /\ Cardinality(FusedDocs) = 2
    /\ \E d, e \in FusedDocs : d # e /\ FusedOf(d) = FusedOf(e)
    /\ Len(hs.result) = 1

=============================================================================
